---- MODULE Spec2Model ----
(***************************************************************************)
(* World-info activation of the Acsus-Paws-Puffs extension                 *)
(* (WorldInfoIntegration: shouldActivateItem, matchKeys, updateItemPrompt, *)
(* injectAllItems and the handlers that change selectedItems), together    *)
(* with the logger it reports to and the host prompt sink it writes to.    *)
(*                                                                         *)
(* Strings are sequences of one-character strings, so that lower-casing,   *)
(* regular-expression escaping, word boundaries and substring search are   *)
(* computed character by character, the way the JavaScript engine does.    *)
(***************************************************************************)
EXTENDS Integers, Sequences, FiniteSets, TLC

VARIABLES
    selectedItems,  \* this.selectedItems: the configured entries, in order
    prompts,        \* host prompt sink: key -> [value, depth, role]
    chat,           \* getContext().chat: the messages, oldest first
    writes,         \* setExtensionPrompt calls made by the last step
    evals,          \* shouldActivateItem calls made by the last step
    warnCalls,      \* logger.warn calls made by the last step
    consoleLines,   \* lines the logger printed to the console so far
    handler,        \* the last step: the handler that ran, or the host changing the chat
    settings,       \* extension_settings[...].worldBookTool.items, as last saved
    listeners,      \* GENERATION_STARTED callbacks registered with eventSource
    lastTrigger,    \* history, kept by SpecTriggers only: the chat and the sink as the
                    \* run of injectAllItems before the last one left them
    call,           \* a single call of matchKeys / shouldActivateItem and its result
    presets,        \* presetSnapshot storage.presets: preset name -> snapshots, lastApplied
    currentPreset,  \* oai_settings.preset_settings_openai
    promptOrder,    \* promptManager's prompt order of the active character
    uuids,          \* ids generateUUID has handed out so far
    snapshotCall,   \* the last call of the snapshot API and what it returned
    fonts,          \* FontManager.fonts: font name -> font data
    currentFont,    \* FontManager.currentFont: null or a font name
    fontEnabled,    \* FontManager.fontEnabled
    fontStyle,      \* the style element paws-puffs-font-style: null or the font it applies
    fontCall,       \* the last call of a FontManager method and what it returned
    wbSelected,     \* the value of the dropdown paws-wb-select: "" or a world book
    availableList,  \* what the list paws-wb-available-list shows
    worldInfoCache, \* the world books whose entries worldInfoCache holds
    pendingLoads    \* per world book, the calls of loadWorldInfo not yet settled

\* the variables of the preset snapshots
snapshotVars == <<presets, currentPreset, promptOrder, uuids, snapshotCall>>

\* the variables of the font manager
fontVars == <<fonts, currentFont, fontEnabled, fontStyle, fontCall>>

\* the variables of the world-book picker in the drawer
bookVars == <<wbSelected, availableList, worldInfoCache, pendingLoads>>

\* what the world-info handlers do not touch
elsewhere == <<snapshotVars, fontVars, bookVars>>

vars == <<selectedItems, prompts, chat, writes, evals, warnCalls, consoleLines,
          handler, settings, listeners, lastTrigger, call, elsewhere>>

\* A field that may hold null: <<>> is null, <<n>> is the number n.
None == <<>>

\* the snapshot module before its first call: no stored preset, the host's
\* default preset with no prompt entries
SnapshotsIdle ==
    /\ presets = [name \in {} |-> None]
    /\ currentPreset = "default"
    /\ promptOrder = <<>>
    /\ uuids = 0
    /\ snapshotCall = [fn |-> "none"]

\* new FontManager(): no font, no selection, the feature switched on, no style element
FontsIdle ==
    /\ fonts = [name \in {} |-> None]
    /\ currentFont = None
    /\ fontEnabled = TRUE
    /\ fontStyle = None
    /\ fontCall = [fn |-> "none"]

\* the world books the host offers: World, one more, and one without entries
WorldBooks == {"w", "v", "e"}

\* the drawer as rendered: nothing selected, the list asking to select a world
\* book, an empty cache, no load under way
BooksIdle ==
    /\ wbSelected = ""
    /\ availableList = [kind |-> "prompt", world |-> ""]
    /\ worldInfoCache = {}
    /\ pendingLoads = [name \in WorldBooks |-> 0]

\* the other modules of the extension are in their state after construction
ElsewhereIdle == SnapshotsIdle /\ FontsIdle /\ BooksIdle
Some(n) == <<n>>
IsNull(x) == Len(x) = 0

-----------------------------------------------------------------------------
(* Bounds of the model.                                                    *)

MaxTextLen == 3     \* longest corpus drawn exhaustively for matchKeys
MaxKeyLen == 2      \* longest keyword drawn exhaustively
MaxKeys == 1        \* longest keyword list drawn exhaustively

-----------------------------------------------------------------------------
(* Characters and strings.                                                 *)

UpperCase == <<"A", "B", "C", "D", "E", "F", "G", "H", "I", "J", "K", "L", "M",
               "N", "O", "P", "Q", "R", "S", "T", "U", "V", "W", "X", "Y", "Z">>
LowerCase == <<"a", "b", "c", "d", "e", "f", "g", "h", "i", "j", "k", "l", "m",
               "n", "o", "p", "q", "r", "s", "t", "u", "v", "w", "x", "y", "z">>
Digits == {"0", "1", "2", "3", "4", "5", "6", "7", "8", "9"}

Range(s) == {s[i] : i \in 1..Len(s)}

\* \w of a JavaScript regular expression without the u flag: [A-Za-z0-9_]
WordChars == Range(UpperCase) \cup Range(LowerCase) \cup Digits \cup {"_"}

\* String.prototype.toLowerCase, one character
ToLowerChar(c) ==
    IF c \in Range(UpperCase)
    THEN LowerCase[CHOOSE i \in 1..Len(UpperCase) : UpperCase[i] = c]
    ELSE c

\* String.prototype.toLowerCase
ToLowerCase(s) == [i \in 1..Len(s) |-> ToLowerChar(s[i])]

\* Canonicalize of the regular-expression i flag (toUpperCase), one character
Canonicalize(c) ==
    IF c \in Range(LowerCase)
    THEN UpperCase[CHOOSE i \in 1..Len(LowerCase) : LowerCase[i] = c]
    ELSE c

\* String.prototype.includes: key occurs in text as a contiguous substring
Includes(text, key) ==
    \E i \in 1..(Len(text) - Len(key) + 1) :
        \A j \in 1..Len(key) : text[i + j - 1] = key[j]

RECURSIVE Join(_, _)
\* Array.prototype.join with separator sep, over an array of strings
Join(strs, sep) ==
    IF Len(strs) = 0 THEN <<>>
    ELSE IF Len(strs) = 1 THEN strs[1]
    ELSE strs[1] \o sep \o Join(Tail(strs), sep)

-----------------------------------------------------------------------------
(* The regular expression of the whole-word branch of matchKeys.           *)

\* the character class of k.replace(/[.*+?^${}()|[\]\\]/g, '\\$&')
MetaChars == {".", "*", "+", "?", "^", "$", "{", "}", "(", ")", "|", "[", "]", "\\"}

\* a slip: the keyword goes into the pattern as it is
EscapeRegExp_Verbatim(k) == k

RECURSIVE EscapeRegExp(_)
\* k.replace(/[.*+?^${}()|[\]\\]/g, '\\$&'): a backslash before every metacharacter
EscapeRegExp(k) ==
    IF Len(k) = 0 THEN <<>>
    ELSE (IF Head(k) \in MetaChars THEN <<"\\", Head(k)>> ELSE <<Head(k)>>)
         \o EscapeRegExp(Tail(k))

\* `\\b(${escapedKeys.join('|')})\\b`
PatternSource(escapedKeys) ==
    <<"\\", "b", "(">> \o Join(escapedKeys, <<"|">>) \o <<")", "\\", "b">>

RECURSIVE ClassEnd(_, _)
\* the index of the ] that closes a character class whose body starts at i, 0 if
\* the class is not closed
ClassEnd(src, i) ==
    IF i > Len(src) THEN 0
    ELSE IF src[i] = "]" THEN i
    ELSE IF src[i] = "\\" THEN ClassEnd(src, i + 2)
    ELSE ClassEnd(src, i + 1)

RECURSIVE ValidFrom(_, _, _, _, _)
\* The syntax check of new RegExp(pattern) without the u flag, from index i:
\* depth is the number of open groups, atom tells that a quantifier may follow,
\* lazy that a ? may follow a quantifier. The constructor throws a SyntaxError
\* for a backslash at the end, a group that is not closed or not opened, a
\* (? that starts no group, a quantifier with nothing to repeat and a class
\* that is not closed. Braces are literals unless they spell a quantifier,
\* which takes a digit.
ValidFrom(src, i, depth, atom, lazy) ==
    IF i > Len(src) THEN depth = 0
    ELSE CASE src[i] = "\\" ->
                /\ i < Len(src)
                /\ ValidFrom(src, i + 2, depth, src[i + 1] \notin {"b", "B"}, FALSE)
           [] src[i] = "(" ->
                IF i < Len(src) /\ src[i + 1] = "?"
                THEN /\ i + 1 < Len(src)
                     /\ src[i + 2] \in {":", "=", "!"}
                     /\ ValidFrom(src, i + 3, depth + 1, FALSE, FALSE)
                ELSE ValidFrom(src, i + 1, depth + 1, FALSE, FALSE)
           [] src[i] = ")" ->
                depth > 0 /\ ValidFrom(src, i + 1, depth - 1, TRUE, FALSE)
           [] src[i] = "|" -> ValidFrom(src, i + 1, depth, FALSE, FALSE)
           [] src[i] \in {"*", "+", "?"} ->
                IF atom THEN ValidFrom(src, i + 1, depth, FALSE, TRUE)
                ELSE src[i] = "?" /\ lazy /\ ValidFrom(src, i + 1, depth, FALSE, FALSE)
           [] src[i] \in {"^", "$"} -> ValidFrom(src, i + 1, depth, FALSE, FALSE)
           [] src[i] = "[" ->
                /\ ClassEnd(src, i + 1) > 0
                /\ ValidFrom(src, ClassEnd(src, i + 1) + 1, depth, TRUE, FALSE)
           [] OTHER -> ValidFrom(src, i + 1, depth, TRUE, FALSE)

\* new RegExp(pattern, flags) returns: the pattern is well formed
PatternIsValid(src) == ValidFrom(src, 1, 0, FALSE, FALSE)

RECURSIVE Tokenize(_, _)
\* The tokens of a pattern source read from index i: \b is the word-boundary
\* assertion, a backslash before any other character makes it a literal, and
\* ( ) | . keep their meaning when they are not escaped.
Tokenize(src, i) ==
    IF i > Len(src) THEN <<>>
    ELSE IF src[i] = "\\" /\ i < Len(src)
         THEN <<(IF src[i + 1] = "b" THEN [t |-> "wb", ch |-> ""]
                 ELSE [t |-> "lit", ch |-> src[i + 1]])>> \o Tokenize(src, i + 2)
    ELSE <<(CASE src[i] = "(" -> [t |-> "open", ch |-> ""]
              [] src[i] = ")" -> [t |-> "close", ch |-> ""]
              [] src[i] = "|" -> [t |-> "bar", ch |-> ""]
              [] src[i] = "." -> [t |-> "any", ch |-> ""]
              [] OTHER -> [t |-> "lit", ch |-> src[i]])>> \o Tokenize(src, i + 1)

RECURSIVE SplitAlternatives(_, _, _)
\* The alternatives of the group: the tokens between ( and ) cut at each bar
SplitAlternatives(toks, i, cur) ==
    IF i > Len(toks) \/ toks[i].t = "close" THEN <<cur>>
    ELSE IF toks[i].t = "bar" THEN <<cur>> \o SplitAlternatives(toks, i + 1, <<>>)
    ELSE SplitAlternatives(toks, i + 1, Append(cur, toks[i]))

\* new RegExp(pattern, flags) for a pattern of the shape \b( ... )\b:
\* the alternatives of its group, each a sequence of literal / any-character atoms
CompileRegExp(src) == SplitAlternatives(Tokenize(src, 1), 3, <<>>)

\* one atom against one character of the input; ic is the i flag
AtomMatches(atom, c, ic) ==
    \/ atom.t = "any"
    \/ atom.t = "lit" /\ (IF ic THEN Canonicalize(atom.ch) = Canonicalize(c)
                          ELSE atom.ch = c)

\* \b at position p (between text[p] and text[p+1]): exactly one side is a word character
IsWordBoundary(text, p) ==
    (p >= 1 /\ text[p] \in WordChars) # (p < Len(text) /\ text[p + 1] \in WordChars)

\* the alternative alt matches the characters of text right after position p
AltMatchesAt(alt, text, p, ic) ==
    /\ p + Len(alt) <= Len(text)
    /\ \A j \in 1..Len(alt) : AtomMatches(alt[j], text[p + j], ic)

RECURSIVE TryAlternatives(_, _, _, _, _)
\* the group followed by the closing \b, alternatives tried in order from the k-th
TryAlternatives(alts, k, text, p, ic) ==
    IF k > Len(alts) THEN FALSE
    ELSE IF AltMatchesAt(alts[k], text, p, ic) /\ IsWordBoundary(text, p + Len(alts[k]))
         THEN TRUE
    ELSE TryAlternatives(alts, k + 1, text, p, ic)

RECURSIVE ExecFrom(_, _, _, _)
\* the match attempts of RegExp.prototype.test, start positions p, p+1, ...
ExecFrom(alts, text, p, ic) ==
    IF p > Len(text) THEN FALSE
    ELSE IF IsWordBoundary(text, p) /\ TryAlternatives(alts, 1, text, p, ic) THEN TRUE
    ELSE ExecFrom(alts, text, p + 1, ic)

\* regex.test(searchText) on a freshly built regular expression (lastIndex 0)
RegExpTest(src, ic, text) == ExecFrom(CompileRegExp(src), text, 0, ic)

-----------------------------------------------------------------------------
(* matchKeys                                                               *)

\* const searchText = caseSensitive ? text : text.toLowerCase()
SearchText(text, caseSensitive) == IF caseSensitive THEN text ELSE ToLowerCase(text)

\* a slip: the keywords are compared as they were typed
SearchKeys_AsTyped(keys, caseSensitive) == keys

\* const searchKeys = caseSensitive ? keys : keys.map(k => k.toLowerCase())
SearchKeys(keys, caseSensitive) ==
    IF caseSensitive THEN keys ELSE [i \in 1..Len(keys) |-> ToLowerCase(keys[i])]

\* a slip: only a keyword at the very start of the corpus is found
SubstringMatch_StartsWith(searchText, searchKeys) ==
    \E i \in 1..Len(searchKeys) :
        /\ Len(searchKeys[i]) <= Len(searchText)
        /\ SubSeq(searchText, 1, Len(searchKeys[i])) = searchKeys[i]

\* the substring branch: searchKeys.some(key => searchText.includes(key))
SubstringMatch(searchText, searchKeys) ==
    \E i \in 1..Len(searchKeys) : Includes(searchText, searchKeys[i])

\* a slip: the pattern is built without the \b assertions
WholeWordMatch_NoBoundary(searchText, searchKeys, caseSensitive) ==
    SubstringMatch(searchText, searchKeys)

\* the whole-word branch: escape, build the pattern, test
WholeWordMatch(searchText, searchKeys, caseSensitive) ==
    LET escapedKeys == [i \in 1..Len(searchKeys) |-> EscapeRegExp(searchKeys[i])]
    IN  RegExpTest(PatternSource(escapedKeys), ~caseSensitive, searchText)

\* matchKeys(text, keys, caseSensitive, wholeWords) ends with an exception: the
\* only statement of it that can throw for an array of strings is new RegExp
matchKeysThrows(text, keys, caseSensitive, wholeWords) ==
    /\ Len(keys) > 0
    /\ wholeWords
    /\ LET searchKeys == SearchKeys(keys, caseSensitive)
           escapedKeys == [i \in 1..Len(searchKeys) |-> EscapeRegExp(searchKeys[i])]
       IN  ~PatternIsValid(PatternSource(escapedKeys))

\* matchKeys(text, keys, caseSensitive, wholeWords)
matchKeys(text, keys, caseSensitive, wholeWords) ==
    IF Len(keys) = 0 THEN FALSE
    ELSE IF wholeWords
         THEN WholeWordMatch(SearchText(text, caseSensitive),
                             SearchKeys(keys, caseSensitive), caseSensitive)
    ELSE SubstringMatch(SearchText(text, caseSensitive), SearchKeys(keys, caseSensitive))

-----------------------------------------------------------------------------
(* shouldActivateItem                                                      *)

RollSteps == 4      \* Math.random() * 100 takes the values 100 * k / RollSteps, k < RollSteps

DefaultScanDepth == 10
DefaultDepth == 4
IN_CHAT == "IN_CHAT"        \* extension_prompt_types.IN_CHAT
SYSTEM == 0                 \* extension_prompt_roles.SYSTEM, the default role of an entry
ENABLE_LOGGING == FALSE     \* the logger's master switch

\* roll > item.probability, for roll = 100 * k / RollSteps
RollExceeds(k, probability) == 100 * k > probability * RollSteps

\* x || d for a field that holds null or a number
OrDefault(x, d) == IF IsNull(x) \/ x[1] = 0 THEN d ELSE x[1]

\* a slip: a start before the first element gives nothing instead of everything
Slice_NoClip(arr, start) ==
    LET n == Len(arr)
    IN  IF start < 0 /\ n + start < 0 THEN <<>>
        ELSE SubSeq(arr, (IF start < 0 THEN n + start ELSE start) + 1, n)

\* a slip: slice(scanDepth) in place of slice(-scanDepth)
Slice_SignDropped(arr, start) ==
    LET n == Len(arr)
        from == IF -start > n THEN n ELSE -start
    IN  SubSeq(arr, from + 1, n)

\* Array.prototype.slice(start): a negative start counts from the end
Slice(arr, start) ==
    LET n == Len(arr)
        from == IF start < 0 THEN (IF n + start < 0 THEN 0 ELSE n + start)
                ELSE (IF start > n THEN n ELSE start)
    IN  SubSeq(arr, from + 1, n)

\* item.scan_depth: null, a number, or undefined when the entry has no such
\* field, which || treats like null
ScanDepthField(item) ==
    IF "scan_depth" \in DOMAIN item THEN item.scan_depth ELSE None

\* a slip: the scan depth is used without its default
BuildSearchText_NoDefault(msgs, item) ==
    LET scanDepth == IF IsNull(ScanDepthField(item)) THEN 0 ELSE ScanDepthField(item)[1]
        recentMessages == Slice(msgs, -scanDepth)
    IN  Join([i \in 1..Len(recentMessages) |-> recentMessages[i].mes], <<" ">>)

\* recentMessages.map(m => m.mes || '').join(' ')
BuildSearchText(msgs, item) ==
    LET scanDepth == OrDefault(ScanDepthField(item), DefaultScanDepth)
        recentMessages == Slice(msgs, -scanDepth)
    IN  Join([i \in 1..Len(recentMessages) |-> recentMessages[i].mes], <<" ">>)

\* a slip: the secondary list is never consulted
KeywordStage_PrimaryOnly(item, msgs) ==
    matchKeys(BuildSearchText(msgs, item), item.key, item.case_sensitive,
              item.match_whole_words)

\* a slip: && in place of ||
KeywordStage_Both(item, msgs) ==
    LET searchText == BuildSearchText(msgs, item)
    IN  /\ matchKeys(searchText, item.key, item.case_sensitive, item.match_whole_words)
        /\ matchKeys(searchText, item.keysecondary, item.case_sensitive,
                     item.match_whole_words)

\* steps 5 and 6: primaryMatch || secondaryMatch over the scan window
KeywordStage(item, msgs) ==
    LET searchText == BuildSearchText(msgs, item)
        primaryMatch == matchKeys(searchText, item.key, item.case_sensitive,
                                  item.match_whole_words)
        secondaryMatch == IF Len(item.keysecondary) > 0
                          THEN matchKeys(searchText, item.keysecondary,
                                         item.case_sensitive, item.match_whole_words)
                          ELSE FALSE
    IN  primaryMatch \/ secondaryMatch

\* one of the matchKeys calls of steps 5 and 6 throws
KeywordStageThrows(item, msgs) ==
    LET searchText == BuildSearchText(msgs, item)
    IN  \/ matchKeysThrows(searchText, item.key, item.case_sensitive,
                           item.match_whole_words)
        \/ /\ Len(item.keysecondary) > 0
           /\ matchKeysThrows(searchText, item.keysecondary, item.case_sensitive,
                              item.match_whole_words)

\* a slip: the comparison is turned around
ProbabilityBlocks_Inverted(item, k) ==
    item.probability < 100 /\ 100 * k < item.probability * RollSteps

\* a slip: >= in place of >
ProbabilityBlocks_Strict(item, k) ==
    item.probability < 100 /\ 100 * k >= item.probability * RollSteps

\* item.probability < 100: false as well for an entry without a probability
\* field, since undefined < 100 is false
GateApplies(item) == "probability" \in DOMAIN item /\ item.probability < 100

\* step 3: the probability check blocks the entry (k is the draw of Math.random)
ProbabilityBlocks(item, k) == GateApplies(item) /\ RollExceeds(k, item.probability)

\* step 4: a keyword entry without any keyword
NoKeywords(item) == Len(item.key) = 0 /\ Len(item.keysecondary) = 0

\* the four ways shouldActivateItem returns without reaching the keyword stage
ReturnConstant == [result |-> TRUE, stage |-> "constant", rolled |-> FALSE, warns |-> 0]
ReturnDisabled == [result |-> FALSE, stage |-> "disable", rolled |-> FALSE, warns |-> 0]
ReturnBlocked == [result |-> FALSE, stage |-> "probability", rolled |-> TRUE, warns |-> 0]
ReturnNoKeywords(item) ==
    [result |-> FALSE, stage |-> "nokeys", rolled |-> GateApplies(item), warns |-> 1]
ReturnKeywords(item, msgs) ==
    [result |-> KeywordStage(item, msgs), stage |-> "keywords",
     rolled |-> GateApplies(item), warns |-> 0]

\* the call does not return: an exception leaves it from the keyword stage
Thrown(item) ==
    [result |-> FALSE, stage |-> "throw", rolled |-> GateApplies(item), warns |-> 0]

NotReturned == [result |-> FALSE, stage |-> "pending", rolled |-> FALSE, warns |-> 0]

\* a slip: the disable test comes before the constant test
shouldActivateItem_DisableFirst(item, msgs, k) ==
    IF item.disable THEN ReturnDisabled
    ELSE IF item.constant THEN ReturnConstant
    ELSE IF ProbabilityBlocks(item, k) THEN ReturnBlocked
    ELSE IF NoKeywords(item) THEN ReturnNoKeywords(item)
    ELSE IF KeywordStageThrows(item, msgs) THEN Thrown(item)
    ELSE ReturnKeywords(item, msgs)

\* a slip: the disable test is missing
shouldActivateItem_IgnoreDisable(item, msgs, k) ==
    IF item.constant THEN ReturnConstant
    ELSE IF ProbabilityBlocks(item, k) THEN ReturnBlocked
    ELSE IF NoKeywords(item) THEN ReturnNoKeywords(item)
    ELSE IF KeywordStageThrows(item, msgs) THEN Thrown(item)
    ELSE ReturnKeywords(item, msgs)

\* a slip: the missing-keyword test comes before the probability check
shouldActivateItem_WarnFirst(item, msgs, k) ==
    IF item.constant THEN ReturnConstant
    ELSE IF item.disable THEN ReturnDisabled
    ELSE IF NoKeywords(item) THEN ReturnNoKeywords(item)
    ELSE IF ProbabilityBlocks(item, k) THEN ReturnBlocked
    ELSE IF KeywordStageThrows(item, msgs) THEN Thrown(item)
    ELSE ReturnKeywords(item, msgs)

\* shouldActivateItem(item) with chat msgs and draw k: the value returned, the
\* return statement that produced it, whether Math.random was called, and the
\* number of logger.warn calls made
shouldActivateItem(item, msgs, k) ==
    IF item.constant THEN ReturnConstant
    ELSE IF item.disable THEN ReturnDisabled
    ELSE IF ProbabilityBlocks(item, k) THEN ReturnBlocked
    ELSE IF NoKeywords(item) THEN ReturnNoKeywords(item)
    ELSE IF KeywordStageThrows(item, msgs) THEN Thrown(item)
    ELSE ReturnKeywords(item, msgs)

\* logger.warn(...): what reaches the console for n calls
ConsoleWarn(n) == IF ENABLE_LOGGING THEN n ELSE 0

-----------------------------------------------------------------------------
(* updateItemPrompt and injectAllItems                                     *)

\* `paws_wi_${item.id}`
PromptKey(id) == <<"paws_wi_", id>>

\* one call setExtensionPrompt(key, value, position, depth, scan, role)
SetExtensionPrompt(key, value, position, depth, scan, role) ==
    [key |-> key, value |-> value, position |-> position, depth |-> depth,
     scan |-> scan, role |-> role]

\* the call that clears the injection under key
ClearPrompt(key) == SetExtensionPrompt(key, "", IN_CHAT, 0, FALSE, SYSTEM)

\* the call that injects the content of item
InjectPrompt(item) ==
    LET depth == IF ~IsNull(item.depth) THEN item.depth[1] ELSE DefaultDepth
        role == IF ~IsNull(item.role) THEN item.role[1] ELSE SYSTEM
    IN  SetExtensionPrompt(PromptKey(item.id), item.content, IN_CHAT, depth, FALSE, role)

\* the record of one shouldActivateItem call: the draw is kept when it was made
EvalRecord(item, k, out) ==
    [id |-> item.id, k |-> IF out.rolled THEN k ELSE 0, out |-> out]

\* a slip: the enabled flag is not looked at
updateItemPrompt_IgnoreEnabled(item, msgs, k) ==
    LET out == shouldActivateItem(item, msgs, k)
    IN  IF ~out.result
        THEN [write |-> ClearPrompt(PromptKey(item.id)),
              evals |-> <<EvalRecord(item, k, out)>>, item |-> item]
        ELSE [write |-> InjectPrompt(item), evals |-> <<EvalRecord(item, k, out)>>,
              item |-> item]

\* a slip: an entry is switched off once its content has been injected
updateItemPrompt_OneShot(item, msgs, k) ==
    IF item.enabled
    THEN LET out == shouldActivateItem(item, msgs, k)
         IN  IF ~out.result
             THEN [write |-> ClearPrompt(PromptKey(item.id)),
                   evals |-> <<EvalRecord(item, k, out)>>, item |-> item]
             ELSE [write |-> InjectPrompt(item),
                   evals |-> <<EvalRecord(item, k, out)>>,
                   item |-> [item EXCEPT !.enabled = FALSE]]
    ELSE [write |-> ClearPrompt(PromptKey(item.id)), evals |-> <<>>, item |-> item]

\* a slip: an entry that did not activate is switched off
updateItemPrompt_SwitchesOff(item, msgs, k) ==
    IF item.enabled
    THEN LET out == shouldActivateItem(item, msgs, k)
         IN  IF ~out.result
             THEN [write |-> ClearPrompt(PromptKey(item.id)),
                   evals |-> <<EvalRecord(item, k, out)>>,
                   item |-> [item EXCEPT !.enabled = FALSE]]
             ELSE [write |-> InjectPrompt(item),
                   evals |-> <<EvalRecord(item, k, out)>>, item |-> item]
    ELSE [write |-> ClearPrompt(PromptKey(item.id)), evals |-> <<>>, item |-> item]

\* updateItemPrompt(item) with chat msgs and draw k: the sink call it makes, the
\* shouldActivateItem call it made, if any, and the entry object as the call
\* leaves it (no statement of updateItemPrompt, shouldActivateItem or matchKeys
\* assigns to a field of item)
updateItemPrompt(item, msgs, k) ==
    IF item.enabled
    THEN LET out == shouldActivateItem(item, msgs, k)
         IN  IF ~out.result
             THEN [write |-> ClearPrompt(PromptKey(item.id)),
                   evals |-> <<EvalRecord(item, k, out)>>, item |-> item]
             ELSE [write |-> InjectPrompt(item),
                   evals |-> <<EvalRecord(item, k, out)>>, item |-> item]
    ELSE [write |-> ClearPrompt(PromptKey(item.id)), evals |-> <<>>, item |-> item]

RECURSIVE Flatten(_)
\* the concatenation of a sequence of sequences
Flatten(ss) == IF Len(ss) = 0 THEN <<>> ELSE Head(ss) \o Flatten(Tail(ss))

\* a slip: only the enabled entries are visited
injectAllItems_EnabledOnly(items, msgs, ks) ==
    LET idx == SelectSeq([i \in 1..Len(items) |-> i], LAMBDA i : items[i].enabled)
    IN  [j \in 1..Len(idx) |-> updateItemPrompt(items[idx[j]], msgs, ks[idx[j]])]

\* injectAllItems(): updateItemPrompt for each entry in order, entry i with draw ks[i]
injectAllItems(items, msgs, ks) ==
    [i \in 1..Len(items) |-> updateItemPrompt(items[i], msgs, ks[i])]

RECURSIVE ApplyWrites(_, _)
\* the sink after the calls ws, made in order
ApplyWrites(sink, ws) ==
    IF Len(ws) = 0 THEN sink
    ELSE ApplyWrites((Head(ws).key :> Head(ws)) @@ sink, Tail(ws))

\* the sink calls, the evaluations and the logger.warn calls of a run of updates
WritesOf(updates) == [i \in 1..Len(updates) |-> updates[i].write]
EvalsOf(updates) == Flatten([i \in 1..Len(updates) |-> updates[i].evals])

\* the entries of items after the calls updates: each entry an update was given
\* is the object that update left
ItemsAfter(items, updates) ==
    [i \in 1..Len(items) |->
        IF \E u \in 1..Len(updates) : updates[u].item.id = items[i].id
        THEN updates[CHOOSE u \in 1..Len(updates) :
                         updates[u].item.id = items[i].id].item
        ELSE items[i]]

RECURSIVE SumWarns(_)
SumWarns(es) == IF Len(es) = 0 THEN 0 ELSE Head(es).out.warns + SumWarns(Tail(es))

-----------------------------------------------------------------------------
(* Inputs.                                                                 *)

Alphabet == {"a", "A", " "}     \* a word character, its upper case, a separator

\* all strings over Alphabet of at most n characters
Strs(n) == UNION {[1..m -> Alphabet] : m \in 0..n}

\* all arrays of at most n elements of S
Arrays(S, n) == UNION {[1..m -> S] : m \in 0..n}

Cat == <<"c", "a", "t">>
CatUpper == <<"C", "a", "t">>
Dog == <<"d", "o", "g">>
Category == <<"c", "a", "t", "e", "g", "o", "r", "y">>
TheCatSat == <<"t", "h", "e", " ", "c", "a", "t", " ", "s", "a", "t">>
CatDot == <<"c", "a", "t", ".">>

SampleTexts == {Category, TheCatSat, CatDot}
SampleKeyLists == {<<Cat>>, <<Dog, Cat>>, <<CatUpper>>, <<<<".">>>>,
                   <<<<"a">>, <<"a", "A">>>>, <<<<"c", "a">>, <<"c", "a", "t">>>>}

Texts == Strs(MaxTextLen) \cup SampleTexts
KeyLists == Arrays(Strs(MaxKeyLen), MaxKeys) \cup SampleKeyLists

NoCall == [fn |-> "none", st |-> "idle"]
NoPrompts == [k \in {} |-> ""]

\* the state right after construction, before any handler ran
Idle ==
    /\ selectedItems = <<>>
    /\ prompts = NoPrompts
    /\ writes = <<>>
    /\ evals = <<>>
    /\ warnCalls = 0
    /\ consoleLines = 0
    /\ handler = "constructor"
    /\ settings = <<>>
    /\ listeners = 0
    /\ lastTrigger = None

-----------------------------------------------------------------------------
(* SpecMatch: matchKeys applied to every corpus, keyword list and flags.   *)

InitMatch ==
    /\ Idle
    /\ chat = <<>>
    /\ call \in [fn : {"matchKeys"}, st : {"pending"}, text : Texts, keys : KeyLists,
                 caseSensitive : BOOLEAN, wholeWords : BOOLEAN, result : {FALSE}]
    /\ ElsewhereIdle

MatchKeysCall ==
    /\ call.fn = "matchKeys" /\ call.st = "pending"
    /\ call' = [call EXCEPT !.st = "done",
                            !.result = matchKeys(call.text, call.keys,
                                                 call.caseSensitive, call.wholeWords)]
    /\ UNCHANGED <<selectedItems, prompts, chat, writes, evals, warnCalls,
                   consoleLines, handler, settings, listeners, lastTrigger,
                   elsewhere>>

NextMatch == MatchKeysCall

SpecMatch == InitMatch /\ [][NextMatch]_vars

MatchDone == call.fn = "matchKeys" /\ call.st = "done"

\* case normalisation of a string as matchKeys applies it
Normalised(s, caseSensitive) == IF caseSensitive THEN s ELSE ToLowerCase(s)

\* position p of t (between t[p] and t[p+1]) has a word character on exactly one side
AtWordEdge(t, p) ==
    LET before == p >= 1 /\ t[p] \in WordChars
        after == p < Len(t) /\ t[p + 1] \in WordChars
    IN  (before /\ ~after) \/ (~before /\ after)

\* k occurs in t delimited on both sides by a word boundary
OccursAsWholeWord(t, k) ==
    \E p \in 0..(Len(t) - Len(k)) :
        /\ SubSeq(t, p + 1, p + Len(k)) = k
        /\ AtWordEdge(t, p)
        /\ AtWordEdge(t, p + Len(k))

\* k occurs in t with no word character right before or right after it
StandsAlone(t, k) ==
    \E p \in 0..(Len(t) - Len(k)) :
        /\ SubSeq(t, p + 1, p + Len(k)) = k
        /\ (p = 0 \/ t[p] \notin WordChars)
        /\ (p + Len(k) = Len(t) \/ t[p + Len(k) + 1] \notin WordChars)

\* a non-empty keyword made of word characters only
IsPlainWord(k) == Len(k) > 0 /\ \A i \in 1..Len(k) : k[i] \in WordChars

\* C9: in whole-word mode matchKeys succeeds exactly when some keyword of the
\* list occurs in the (case-normalised) corpus delimited on both sides by a word
\* boundary; for keywords made of word characters this is the keyword standing
\* as its own word; "cat" does not match "category" and matches "the cat sat".
Thm_C9_WholeWord ==
    (MatchDone /\ call.wholeWords) =>
        LET t == Normalised(call.text, call.caseSensitive)
            ks == [i \in 1..Len(call.keys) |-> Normalised(call.keys[i], call.caseSensitive)]
        IN  /\ call.result = (\E i \in 1..Len(ks) : OccursAsWholeWord(t, ks[i]))
            /\ (\A i \in 1..Len(ks) : IsPlainWord(ks[i])) =>
                   call.result = (\E i \in 1..Len(ks) : StandsAlone(t, ks[i]))
            /\ (call.keys = <<Cat>> /\ call.text = Category) => ~call.result
            /\ (call.keys = <<Cat>> /\ call.text = TheCatSat) => call.result

\* a keyword embedded in a longer word was rejected although it is a substring,
\* and a second keyword of a list decided a match
Wit_C9_WholeWord ==
    /\ MatchDone /\ call.wholeWords
    /\ call.keys = <<Dog, Cat>> /\ call.text = TheCatSat /\ call.result

Wit_C9_Embedded ==
    /\ MatchDone /\ call.wholeWords
    /\ call.keys = <<Cat>> /\ call.text = Category /\ ~call.result

\* k is a contiguous substring of t
IsSubstring(t, k) ==
    \E a \in 0..Len(t) : \E b \in a..Len(t) : SubSeq(t, a + 1, b) = k

\* C10: in substring mode matchKeys succeeds exactly when at least one keyword
\* of the list is a contiguous substring of the corpus after case normalisation;
\* "cat" matches "category".
Thm_C10_Substring ==
    (MatchDone /\ ~call.wholeWords) =>
        LET t == Normalised(call.text, call.caseSensitive)
            ks == [i \in 1..Len(call.keys) |-> Normalised(call.keys[i], call.caseSensitive)]
        IN  /\ call.result = (\E i \in 1..Len(ks) : IsSubstring(t, ks[i]))
            /\ (call.keys = <<Cat>> /\ call.text = Category) => call.result

Wit_C10_Substring ==
    /\ MatchDone /\ ~call.wholeWords
    /\ call.keys = <<Cat>> /\ call.text = Category /\ call.result

\* the characters c and d are the same letter, in the same or in the other case
SameLetter(c, d) ==
    \/ c = d
    \/ \E n \in 1..Len(UpperCase) : {c, d} = {UpperCase[n], LowerCase[n]}

\* the strings a and b differ at most in the case of their letters
DiffersOnlyInCase(a, b) ==
    Len(a) = Len(b) /\ \A i \in 1..Len(a) : SameLetter(a[i], b[i])

\* k occurs in t, as a whole word when wholeWords is set, identically when exact
\* is set and up to the case of its letters otherwise
Occurs(t, k, wholeWords, exact) ==
    \E p \in 0..(Len(t) - Len(k)) :
        /\ IF exact THEN SubSeq(t, p + 1, p + Len(k)) = k
           ELSE DiffersOnlyInCase(SubSeq(t, p + 1, p + Len(k)), k)
        /\ wholeWords => (AtWordEdge(t, p) /\ AtWordEdge(t, p + Len(k)))

\* C11: in substring and in whole-word mode alike, with case_sensitive = true
\* matchKeys succeeds exactly when a keyword occurs in the corpus with identical
\* letter case ("Cat" does not match "the cat sat"); with case_sensitive = false
\* it succeeds exactly when a keyword occurs up to letter case ("Cat" matches
\* "the cat sat"), corpus and keywords being lower-cased before the comparison.
Thm_C11_Case ==
    MatchDone =>
        /\ call.result = (\E i \in 1..Len(call.keys) :
                              Occurs(call.text, call.keys[i], call.wholeWords,
                                     call.caseSensitive))
        /\ ~call.caseSensitive =>
               call.result = matchKeys(ToLowerCase(call.text),
                                       [i \in 1..Len(call.keys) |->
                                            ToLowerCase(call.keys[i])],
                                       TRUE, call.wholeWords)
        /\ (call.keys = <<CatUpper>> /\ call.text = TheCatSat) =>
               call.result = ~call.caseSensitive

\* "Cat" found in "the cat sat" as a whole word once the case is ignored
Wit_C11_Case ==
    /\ MatchDone /\ ~call.caseSensitive /\ call.wholeWords
    /\ call.keys = <<CatUpper>> /\ call.text = TheCatSat /\ call.result

\* "Cat" not found in "the cat sat" when the case counts
Wit_C11_Exact ==
    /\ MatchDone /\ call.caseSensitive /\ ~call.wholeWords
    /\ call.keys = <<CatUpper>> /\ call.text = TheCatSat /\ ~call.result

-----------------------------------------------------------------------------
(* SpecActivate: shouldActivateItem applied to every entry, chat and draw. *)

MaxChat == 2        \* most messages of a chat drawn exhaustively

Probs == {0, 50, 100}
\* key lists: none, one keyword in either case, an empty keyword and keywords
\* that are regular-expression metacharacters, all of which the host's world
\* book may hold (addSingleEntry copies entryData.key as it is)
ActKeys == {<<>>, <<<<"a">>>>, <<<<"A">>>>, <<<<>>>>, <<<<"*">>, <<"(">>>>}
ActSecondaryKeys == {<<>>, <<<<"a">>>>}
ActScanDepths == {None, Some(1), Some(2)}
Messages == {[mes |-> <<>>], [mes |-> <<"a">>], [mes |-> <<"A", "a">>]}
\* a chat of n messages that are empty but for the i-th, which is the keyword
OnlyAt(n, i) == [j \in 1..n |-> [mes |-> IF j = i THEN <<"a">> ELSE <<>>]]

\* longer chats: the keyword only in the message 3-from-end or 2-from-end of
\* three, and only in the message 11-from-end or 10-from-end of eleven
SampleChats ==
    {OnlyAt(3, 1), OnlyAt(3, 2),
     OnlyAt(DefaultScanDepth + 1, 1), OnlyAt(DefaultScanDepth + 1, 2)}

Chats == Arrays(Messages, MaxChat) \cup SampleChats
Draws == 0..(RollSteps - 1)

ActItems ==
    [constant : BOOLEAN, disable : BOOLEAN, probability : Probs,
     key : ActKeys, keysecondary : ActSecondaryKeys,
     case_sensitive : BOOLEAN, match_whole_words : BOOLEAN,
     scan_depth : ActScanDepths, name : {"entry"}]

InitActivate ==
    /\ Idle
    /\ chat \in Chats
    /\ call \in [fn : {"shouldActivateItem"}, st : {"pending"}, item : ActItems,
                 k : {0}, out : {NotReturned}]
    /\ ElsewhereIdle

\* one evaluation; the draw is recorded when Math.random was called
ShouldActivateCall ==
    /\ call.fn = "shouldActivateItem" /\ call.st = "pending"
    /\ \E k \in Draws :
         LET out == shouldActivateItem(call.item, chat, k)
         IN  /\ call' = [call EXCEPT !.st = "done", !.out = out,
                                     !.k = IF out.rolled THEN k ELSE 0]
             /\ warnCalls' = out.warns
             /\ consoleLines' = consoleLines + ConsoleWarn(out.warns)
    /\ handler' = "shouldActivateItem"
    /\ UNCHANGED <<selectedItems, prompts, chat, writes, evals, settings, listeners,
                   lastTrigger, elsewhere>>

NextActivate == ShouldActivateCall

SpecActivate == InitActivate /\ [][NextActivate]_vars

ActDone == call.fn = "shouldActivateItem" /\ call.st = "done"

\* the entry of the call is a keyword entry that is not disabled
ActKeywordEntry == ~call.item.constant /\ ~call.item.disable

\* C1: shouldActivateItem returns true for every entry whose constant flag is
\* true, whatever the chat, the probability, the draw, the key lists and the
\* disable flag.
Thm_C1_Constant ==
    (ActDone /\ call.item.constant) =>
        /\ call.out.result
        /\ \A k \in Draws : shouldActivateItem(call.item, chat, k).result

Wit_C1_Constant ==
    /\ ActDone /\ call.item.constant /\ call.item.disable
    /\ call.item.probability = 0 /\ NoKeywords(call.item) /\ chat = <<>>
    /\ call.out.result

\* C2: shouldActivateItem returns false for every entry with disable = true and
\* constant = false, for every chat, probability, draw and key lists.
Thm_C2_Disabled ==
    (ActDone /\ call.item.disable /\ ~call.item.constant) =>
        /\ ~call.out.result
        /\ \A k \in Draws : ~shouldActivateItem(call.item, chat, k).result

\* a disabled entry whose keyword is in the chat and whose gate is open
Wit_C2_Disabled ==
    /\ ActDone /\ call.item.disable /\ ~call.item.constant
    /\ call.item.probability = 100 /\ call.item.key = <<<<"a">>>>
    /\ Len(chat) > 0 /\ chat[Len(chat)].mes = <<"a">>
    /\ ~call.out.result

\* the keyword test as the claims state it: the primary list matches the scan
\* window, or the secondary list is non-empty and matches it
KeywordsMatch(item, msgs) ==
    LET text == BuildSearchText(msgs, item)
    IN  \/ matchKeys(text, item.key, item.case_sensitive, item.match_whole_words)
        \/ /\ Len(item.keysecondary) > 0
           /\ matchKeys(text, item.keysecondary, item.case_sensitive,
                        item.match_whole_words)

\* the draw 100 * k / RollSteps exceeds p
DrawExceeds(k, p) == k * 100 > p * RollSteps

\* C5: for a keyword entry with probability p < 100 and draw r: if r exceeds p
\* the entry does not activate and neither the missing-keyword check nor the
\* keyword test is reached; otherwise the result is the result of the keyword
\* stage.
Thm_C5_Gate ==
    (ActDone /\ ActKeywordEntry /\ call.item.probability < 100) =>
        /\ call.out.rolled
        /\ DrawExceeds(call.k, call.item.probability) =>
               /\ ~call.out.result
               /\ call.out.stage = "probability"
               /\ call.out.warns = 0
        /\ ~DrawExceeds(call.k, call.item.probability) =>
               /\ call.out.stage \in {"nokeys", "keywords"}
               /\ call.out.result = KeywordsMatch(call.item, chat)

\* a blocked entry whose keyword is in the chat
Wit_C5_Blocked ==
    /\ ActDone /\ ActKeywordEntry /\ call.item.probability = 50
    /\ DrawExceeds(call.k, 50)
    /\ KeywordsMatch(call.item, chat) /\ ~call.out.result

\* an entry that passed the gate and matched
Wit_C5_Passed ==
    /\ ActDone /\ ActKeywordEntry /\ call.item.probability = 50
    /\ ~DrawExceeds(call.k, 50) /\ call.k > 0
    /\ call.out.result

\* C6: for a keyword entry with probability 100 the gate never blocks: for
\* every draw the result is the keyword match alone.
Thm_C6_Hundred ==
    (ActDone /\ ActKeywordEntry /\ call.item.probability = 100) =>
        /\ call.out.stage \in {"nokeys", "keywords"}
        /\ call.out.result = KeywordsMatch(call.item, chat)
        /\ \A k \in Draws :
               shouldActivateItem(call.item, chat, k).result = call.out.result

\* the secondary list alone decided the match
Wit_C6_Hundred ==
    /\ ActDone /\ ActKeywordEntry /\ call.item.probability = 100
    /\ call.item.key = <<<<"A">>>> /\ call.item.case_sensitive
    /\ call.item.keysecondary = <<<<"a">>>>
    /\ chat = <<[mes |-> <<"a">>]>>
    /\ call.out.result

\* the draws for which the entry activates over the chat msgs
ActivatingDraws(item, msgs) == {k \in Draws : shouldActivateItem(item, msgs, k).result}

\* the draws for which the probability check lets the entry through
PassingDraws(item, msgs) ==
    {k \in Draws : shouldActivateItem(item, msgs, k).stage # "probability"}

\* the entry with other key lists
WithKeys(item, key, keysecondary) ==
    [item EXCEPT !.key = key, !.keysecondary = keysecondary]

\* C7 as stated: for a keyword entry with probability p < 100 the set of draws
\* for which the entry activates is the same whatever its keywords are.
Cex_C7_Independent ==
    (ActDone /\ ActKeywordEntry /\ call.item.probability < 100) =>
        \A key \in ActKeys : \A keysecondary \in ActSecondaryKeys :
            ActivatingDraws(WithKeys(call.item, key, keysecondary), chat)
                = ActivatingDraws(call.item, chat)

\* C7 amended: the set of draws that pass the probability check is the same
\* whatever the keywords are, namely the draws that do not exceed p (about p%
\* of them, to within one step of the grid of draws); the entry activates for
\* exactly these draws when its keywords match the scan window and for no draw
\* when they do not.
Thm_C7_GateIndependent ==
    (ActDone /\ ActKeywordEntry /\ call.item.probability < 100) =>
        LET p == call.item.probability
            pass == {k \in Draws : ~DrawExceeds(k, p)}
        IN  /\ \A key \in ActKeys : \A keysecondary \in ActSecondaryKeys :
                   PassingDraws(WithKeys(call.item, key, keysecondary), chat) = pass
            /\ Cardinality(pass) * 100 >= p * RollSteps
            /\ Cardinality(pass) * 100 <= p * RollSteps + 100
            /\ ActivatingDraws(call.item, chat)
                   = (IF KeywordsMatch(call.item, chat) THEN pass ELSE {})
            /\ call.out.result = (call.k \in pass /\ KeywordsMatch(call.item, chat))

\* the draw passed the gate and the entry still did not activate: no keyword matched
Wit_C7_GateIndependent ==
    /\ ActDone /\ ActKeywordEntry /\ call.item.probability = 50
    /\ ~NoKeywords(call.item) /\ ~KeywordsMatch(call.item, chat)
    /\ call.out.rolled /\ ~DrawExceeds(call.k, 50)
    /\ ~call.out.result
    /\ ActivatingDraws(call.item, chat) = {}
    /\ ActivatingDraws(WithKeys(call.item, <<<<"a">>>>, <<>>), <<[mes |-> <<"a">>]>>) # {}

\* C8 as stated: for every entry with empty key and keysecondary, constant =
\* false and disable = false (any probability, any chat) each call returns false
\* and makes the missing-keyword warning exactly once.
Cex_C8_WarnOnce ==
    (ActDone /\ ActKeywordEntry /\ NoKeywords(call.item)) =>
        /\ ~call.out.result
        /\ warnCalls = 1

\* C8 amended: each such call returns false; it calls logger.warn exactly once
\* when the entry gets past the probability check (always for probability 100)
\* and not at all when the draw exceeds the probability; the logger, whose
\* ENABLE_LOGGING switch is off, prints nothing to the console.
Thm_C8_WarnOncePastGate ==
    (ActDone /\ ActKeywordEntry /\ NoKeywords(call.item)) =>
        /\ ~call.out.result
        /\ warnCalls = (IF /\ call.item.probability < 100
                           /\ DrawExceeds(call.k, call.item.probability)
                        THEN 0 ELSE 1)
        /\ consoleLines = 0

Wit_C8_WarnOncePastGate ==
    /\ ActDone /\ ActKeywordEntry /\ NoKeywords(call.item)
    /\ call.item.probability = 50 /\ call.out.rolled /\ call.k > 0
    /\ ~DrawExceeds(call.k, 50)
    /\ warnCalls = 1 /\ ~call.out.result

\* the call went all the way to the keyword test
ReachedKeywords == ActDone /\ call.out.stage = "keywords"

\* the list keys matches the scan window of the call's entry
ListMatches(keys) ==
    matchKeys(BuildSearchText(chat, call.item), keys, call.item.case_sensitive,
              call.item.match_whole_words)

Wit_C12_PrimaryMissed ==
    /\ ReachedKeywords
    /\ call.item.key = <<<<"A">>>> /\ call.item.case_sensitive
    /\ ~ListMatches(call.item.key) /\ ListMatches(call.item.keysecondary)
    /\ call.out.result

\* the number of messages the entry asks to scan
ScanDepthOf(item) ==
    IF IsNull(ScanDepthField(item)) THEN DefaultScanDepth ELSE ScanDepthField(item)[1]

\* the last n messages of msgs, all of them when there are fewer
LastMessages(msgs, n) ==
    LET m == IF n < Len(msgs) THEN n ELSE Len(msgs)
    IN  [i \in 1..m |-> msgs[Len(msgs) - m + i]]

\* the messages of msgs in front of its last n
OlderMessages(msgs, n) == SubSeq(msgs, 1, Len(msgs) - Len(LastMessages(msgs, n)))

\* the texts of msgs, oldest first, with one space between them
Corpus(msgs) == Join([i \in 1..Len(msgs) |-> msgs[i].mes], <<" ">>)

\* some keyword of item, primary or secondary, occurs in the text t
KeywordOccurs(item, t) ==
    \E k \in Range(item.key) \cup Range(item.keysecondary) :
        Occurs(t, k, item.match_whole_words, item.case_sensitive)

\* C13: the keyword stage only considers the last scan_depth messages: the
\* outcome of every evaluation is the outcome over these messages alone, it is
\* the same whatever the older messages are, and an entry none of whose keywords
\* occurs in the last scan_depth messages does not activate, also when a keyword
\* occurs in an older message.
Thm_C13_ScanWindow ==
    (ActDone /\ ActKeywordEntry) =>
        LET n == ScanDepthOf(call.item)
            recent == LastMessages(chat, n)
            older == OlderMessages(chat, n)
        IN  /\ \A k \in Draws :
                   shouldActivateItem(call.item, chat, k)
                       = shouldActivateItem(call.item, recent, k)
            /\ \A other \in Chats :
                   Len(other) = Len(older) =>
                       shouldActivateItem(call.item, other \o recent, call.k).result
                           = call.out.result
            /\ ~KeywordOccurs(call.item, Corpus(recent)) => ~call.out.result
            /\ call.out.stage = "keywords" =>
                   call.out.result = KeywordOccurs(call.item, Corpus(recent))

\* scan_depth 2 on three messages: the keyword is only in the message 3-from-end
\* and the entry, which would activate on that message, does not activate
Wit_C13_ScanWindow ==
    /\ ActDone /\ call.out.stage = "keywords"
    /\ call.item.scan_depth = Some(2) /\ Len(chat) = 3
    /\ KeywordOccurs(call.item, chat[1].mes)
    /\ ~KeywordOccurs(call.item, Corpus(LastMessages(chat, 2)))
    /\ shouldActivateItem(call.item, <<chat[1]>>, call.k).result
    /\ ~call.out.result

\* C14 as stated: with an empty chat every non-constant entry evaluates to
\* false, in whole-word and in substring mode, for every key list it may carry.
Cex_C14_EmptyChat ==
    (ActDone /\ ~call.item.constant /\ chat = <<>>) => ~call.out.result

RECURSIVE WholeHistory(_)
\* all messages of msgs, oldest first, a single space after each but the last
WholeHistory(msgs) ==
    IF Len(msgs) = 0 THEN <<>>
    ELSE IF Len(msgs) = 1 THEN msgs[1].mes
    ELSE WholeHistory(SubSeq(msgs, 1, Len(msgs) - 1)) \o <<" ">> \o msgs[Len(msgs)].mes

\* C18: a scan depth that is not smaller than the number of messages clips to
\* the whole history: the corpus is all messages, oldest first, joined by single
\* spaces, and the evaluation goes on as usual: the gate, the missing-keyword
\* check and the keyword test over that corpus, with the same outcome as for a
\* scan depth equal to the number of messages.
Thm_C18_Clip ==
    (ActDone /\ ActKeywordEntry /\ ScanDepthOf(call.item) >= Len(chat)) =>
        /\ BuildSearchText(chat, call.item) = WholeHistory(chat)
        /\ call.out.stage \in {"probability", "nokeys", "keywords"}
        /\ call.out.stage = "keywords" =>
               call.out.result = KeywordOccurs(call.item, WholeHistory(chat))
        /\ Len(chat) > 0 =>
               \A k \in Draws :
                   shouldActivateItem(call.item, chat, k)
                       = shouldActivateItem([call.item EXCEPT
                                                 !.scan_depth = Some(Len(chat))],
                                            chat, k)

\* the default depth of 10 on three messages: the keyword of the oldest message
\* is found
Wit_C18_Clip ==
    /\ ActDone /\ call.out.stage = "keywords"
    /\ IsNull(call.item.scan_depth) /\ chat = OnlyAt(3, 1)
    /\ call.item.key = <<<<"a">>>> /\ call.item.keysecondary = <<>>
    /\ call.out.result

\* C16: shouldActivateItem never raises: every call completes, it returns from
\* one of its five return statements with a boolean, and no draw makes it throw;
\* this for every entry of the model, whose key lists hold plain keywords, an
\* empty keyword and regular-expression metacharacters, in whole-word and in
\* substring mode, and for every chat.
Thm_C16_NeverRaises ==
    /\ (call.fn = "shouldActivateItem" /\ call.st = "pending") =>
           \A k \in Draws :
               shouldActivateItem(call.item, chat, k).result \in BOOLEAN
    /\ ActDone =>
           /\ call.out.stage \in {"constant", "disable", "probability", "nokeys",
                                  "keywords"}
           /\ call.out.result \in BOOLEAN
           /\ \A k \in Draws : shouldActivateItem(call.item, chat, k).stage # "throw"
           /\ ~KeywordStageThrows(call.item, chat)
           /\ \A c \in MetaChars :
                  ~matchKeysThrows(<<>>, call.item.key \o <<<<c>>, <<c, c>>>>,
                                   call.item.case_sensitive, TRUE)

\* a whole-word entry whose keywords are * and ( went through the keyword test
Wit_C16_NeverRaises ==
    /\ ActDone /\ call.out.stage = "keywords" /\ call.item.match_whole_words
    /\ call.item.key = <<<<"*">>, <<"(">>>> /\ call.item.keysecondary = <<>>
    /\ Len(chat) > 0 /\ ~call.out.result

\* a whole-word entry whose keyword is the empty string went through the keyword test
Wit_C16_EmptyKeyword ==
    /\ ActDone /\ call.out.stage = "keywords" /\ call.item.match_whole_words
    /\ call.item.key = <<<<>>>> /\ Len(chat) > 0 /\ call.out.result

-----------------------------------------------------------------------------
(* Spec: the world-book tool and its host.                                 *)

MaxTime == 1        \* Date.now() takes the values 1..MaxTime

World == "w"

NoExtensions ==
    [depth |-> None, role |-> None, probability |-> None, scan_depth |-> None,
     case_sensitive |-> FALSE, match_whole_words |-> FALSE]

\* the entries of the host world book World, by uid (loadWorldInfo(World).entries):
\* a pinned entry and a keyword entry with a probability and a scan depth of its own
HostEntries ==
    <<[comment |-> "pinned", content |-> "lore1", key |-> <<>>, keysecondary |-> <<>>,
       constant |-> TRUE, disable |-> FALSE, extensions |-> NoExtensions],
      [comment |-> "", content |-> "lore2", key |-> <<<<"a">>>>, keysecondary |-> <<>>,
       constant |-> FALSE, disable |-> FALSE,
       extensions |-> [NoExtensions EXCEPT !.depth = Some(2), !.role = Some(1),
                                           !.probability = Some(50),
                                           !.scan_depth = Some(1)]]>>

\* an entry the world book held in an earlier session: whole words, case-sensitive,
\* with a secondary keyword
FormerEntry ==
    [comment |-> "whole", content |-> "lore3", key |-> <<<<"A">>>>,
     keysecondary |-> <<<<"a">>>>, constant |-> FALSE, disable |-> FALSE,
     extensions |-> [NoExtensions EXCEPT !.case_sensitive = TRUE,
                                         !.match_whole_words = TRUE]]

Uids == 1..Len(HostEntries)

\* x || null for a field that holds null or a number
OrNull(x) == IF IsNull(x) \/ x[1] = 0 THEN None ELSE x

\* the object addSingleEntry pushes for host entry entryData at time now
NewItem(worldName, uid, entryData, now) ==
    [id |-> <<worldName, uid, now>>,
     enabled |-> TRUE,
     worldName |-> worldName,
     uid |-> uid,
     name |-> IF entryData.comment = "" THEN "unnamed" ELSE entryData.comment,
     content |-> entryData.content,
     key |-> entryData.key,
     keysecondary |-> entryData.keysecondary,
     constant |-> entryData.constant,
     depth |-> Some(OrDefault(entryData.extensions.depth, DefaultDepth)),
     role |-> Some(OrDefault(entryData.extensions.role, 0)),
     probability |-> OrDefault(entryData.extensions.probability, 100),
     scan_depth |-> OrNull(entryData.extensions.scan_depth),
     case_sensitive |-> entryData.extensions.case_sensitive,
     match_whole_words |-> entryData.extensions.match_whole_words,
     disable |-> entryData.disable]

\* what an earlier session may have saved: nothing, or entries it had added
SavedLists ==
    {<<>>,
     <<NewItem(World, 1, HostEntries[1], 1)>>,
     <<[NewItem(World, 2, HostEntries[2], 1) EXCEPT !.enabled = FALSE],
       NewItem(World, 3, FormerEntry, 1)>>}

\* the chats the host shows: none yet, the keyword alone, the keyword followed by
\* an empty message, the keyword inside a longer word
HostChats ==
    {<<>>,
     <<[mes |-> <<"a">>]>>,
     <<[mes |-> <<"a">>], [mes |-> <<>>]>>,
     <<[mes |-> <<"A", "a">>]>>}

\* the entry calls Math.random when it is evaluated
CallsRandom(item) ==
    item.enabled /\ ~item.constant /\ ~item.disable /\ GateApplies(item)

\* one draw for each entry that calls Math.random (0 stands for no draw made)
DrawVectors(items) ==
    {ks \in [1..Len(items) -> Draws] :
         \A i \in 1..Len(items) : ~CallsRandom(items[i]) => ks[i] = 0}

Init ==
    /\ selectedItems = <<>>
    /\ prompts = NoPrompts
    /\ chat \in HostChats
    /\ writes = <<>>
    /\ evals = <<>>
    /\ warnCalls = 0
    /\ consoleLines = 0
    /\ handler = "constructor"
    /\ settings \in SavedLists
    /\ listeners = 0
    /\ lastTrigger = None
    /\ call = NoCall
    /\ ElsewhereIdle

\* the effects every handler has on the sink and the logs, for the updates it ran
\* and the other logger.warn calls it made
Ran(name, updates, otherWrites, otherWarns) ==
    LET ws == otherWrites \o WritesOf(updates)
        es == EvalsOf(updates)
    IN  /\ handler' = name
        /\ writes' = ws
        /\ evals' = es
        /\ prompts' = ApplyWrites(prompts, ws)
        /\ warnCalls' = otherWarns + SumWarns(es)
        /\ consoleLines' = consoleLines + ConsoleWarn(otherWarns + SumWarns(es))

\* init(): loadSelectedItems, injectAllItems, register the GENERATION_STARTED callback
InitHandler ==
    /\ listeners = 0
    /\ \E ks \in DrawVectors(settings) :
           LET updates == injectAllItems(settings, chat, ks)
           IN  /\ selectedItems' = ItemsAfter(settings, updates)
               /\ settings' = ItemsAfter(settings, updates)
               /\ Ran("init", updates, <<>>, 0)
    /\ listeners' = listeners + 1
    /\ UNCHANGED <<chat, lastTrigger, call, elsewhere>>

\* a slip: the callback leaves alone an entry whose content is in the sink
OnGenerationStarted_Sticky ==
    /\ listeners = 1
    /\ \E ks \in DrawVectors(selectedItems) :
           LET all == injectAllItems(selectedItems, chat, ks)
               kept(i) == /\ PromptKey(selectedItems[i].id) \in DOMAIN prompts
                          /\ prompts[PromptKey(selectedItems[i].id)].value # ""
               updates == [i \in 1..Len(all) |->
                              IF kept(i)
                              THEN [all[i] EXCEPT
                                       !.write = prompts[PromptKey(selectedItems[i].id)]]
                              ELSE all[i]]
           IN  /\ selectedItems' = ItemsAfter(selectedItems, updates)
               /\ settings' = ItemsAfter(settings, updates)
               /\ Ran("GENERATION_STARTED", updates, <<>>, 0)
    /\ UNCHANGED <<chat, listeners, call, elsewhere>>

\* the callback init() registers: () => this.injectAllItems()
OnGenerationStarted ==
    /\ listeners = 1
    /\ \E ks \in DrawVectors(selectedItems) :
           LET updates == injectAllItems(selectedItems, chat, ks)
           IN  /\ selectedItems' = ItemsAfter(selectedItems, updates)
               /\ settings' = ItemsAfter(settings, updates)
               /\ Ran("GENERATION_STARTED", updates, <<>>, 0)
    /\ UNCHANGED <<chat, listeners, call, elsewhere>>

\* eventSource emits GENERATION_STARTED: every registered callback runs injectAllItems
GenerationStarted == OnGenerationStarted /\ UNCHANGED lastTrigger

\* addSingleEntry(worldName, uid, entryData) at time now
AddEntry(worldName, uid, entryData, now) ==
    LET exists == \E i \in 1..Len(selectedItems) :
                      selectedItems[i].worldName = worldName /\ selectedItems[i].uid = uid
        items == Append(selectedItems, NewItem(worldName, uid, entryData, now))
    IN  /\ listeners = 1
        /\ IF exists
           THEN /\ Ran("addSingleEntry", <<>>, <<>>, 1)
                /\ UNCHANGED <<selectedItems, settings>>
           ELSE \E ks \in DrawVectors(items) :
                    LET updates == injectAllItems(items, chat, ks)
                    IN  /\ selectedItems' = ItemsAfter(items, updates)
                        /\ settings' = ItemsAfter(items, updates)
                        /\ Ran("addSingleEntry", updates, <<>>, 0)
        /\ UNCHANGED <<chat, listeners, lastTrigger, call, elsewhere>>

\* the user picks entry uid of the world book: addSingleEntry with its data
AddSingleEntry(worldName, uid, now) == AddEntry(worldName, uid, HostEntries[uid], now)

\* selectedItems.find(i => i.id === id): the index of the first such entry, 0 if none
FindIndex(items, id) ==
    IF \E i \in 1..Len(items) : items[i].id = id
    THEN CHOOSE i \in 1..Len(items) :
             items[i].id = id /\ \A j \in 1..(i - 1) : items[j].id # id
    ELSE 0

\* a slip: the flag is flipped and saved, the injection is left as it was
ToggleItem_FlagOnly(id) ==
    LET i == FindIndex(selectedItems, id)
        items == [selectedItems EXCEPT ![i].enabled = ~selectedItems[i].enabled]
    IN  /\ listeners = 1
        /\ IF i = 0
           THEN /\ Ran("toggleItem", <<>>, <<>>, 1)
                /\ UNCHANGED <<selectedItems, settings>>
           ELSE /\ selectedItems' = items
                /\ settings' = items
                /\ Ran("toggleItem", <<>>, <<>>, 0)
        /\ UNCHANGED <<chat, listeners, lastTrigger, call, elsewhere>>

\* toggleItem(id)
ToggleItem(id) ==
    LET i == FindIndex(selectedItems, id)
        items == [selectedItems EXCEPT ![i].enabled = ~selectedItems[i].enabled]
    IN  /\ listeners = 1
        /\ IF i = 0
           THEN /\ Ran("toggleItem", <<>>, <<>>, 1)
                /\ UNCHANGED <<selectedItems, settings>>
           ELSE \E ks \in DrawVectors(<<items[i]>>) :
                    LET updates == <<updateItemPrompt(items[i], chat, ks[1])>>
                    IN  /\ selectedItems' = ItemsAfter(items, updates)
                        /\ settings' = ItemsAfter(items, updates)
                        /\ Ran("toggleItem", updates, <<>>, 0)
        /\ UNCHANGED <<chat, listeners, lastTrigger, call, elsewhere>>

\* deleteItem(id)
DeleteItem(id) ==
    LET i == FindIndex(selectedItems, id)
        items == SelectSeq(selectedItems, LAMBDA it : it.id # id)
    IN  /\ listeners = 1
        /\ IF i = 0
           THEN /\ Ran("deleteItem", <<>>, <<>>, 1)
                /\ UNCHANGED <<selectedItems, settings>>
           ELSE /\ selectedItems' = items
                /\ settings' = items
                /\ Ran("deleteItem", <<>>, <<ClearPrompt(PromptKey(id))>>, 0)
        /\ UNCHANGED <<chat, listeners, lastTrigger, call, elsewhere>>

\* the host changes the chat: a message is sent or received, or another chat is opened
HostChangesChat ==
    /\ chat' \in HostChats \ {chat}
    /\ handler' = "chatChanged"
    /\ writes' = <<>>
    /\ evals' = <<>>
    /\ warnCalls' = 0
    /\ UNCHANGED <<selectedItems, prompts, consoleLines, settings, listeners, call, elsewhere>>

ChatChanged == HostChangesChat /\ UNCHANGED lastTrigger

\* the ids a user action can name: those on screen, and one that is not in the list
UnknownId == <<World, 0, 0>>
ItemIds == {selectedItems[i].id : i \in 1..Len(selectedItems)} \cup {UnknownId}

Next ==
    \/ InitHandler
    \/ GenerationStarted
    \/ \E uid \in Uids : \E now \in 1..MaxTime : AddSingleEntry(World, uid, now)
    \/ \E id \in ItemIds : ToggleItem(id)
    \/ \E id \in ItemIds : DeleteItem(id)
    \/ ChatChanged

Spec == Init /\ [][Next]_vars

\* the handlers that go through updateItemPrompt for every sink call they make
UpdatingHandlers == {"init", "GENERATION_STARTED", "addSingleEntry", "toggleItem"}

\* the calls of shouldActivateItem the last handler made for the entry id
EvalsFor(id) == {j \in 1..Len(evals) : evals[j].id = id}

\* the depth and role an entry asks for
DepthOf(item) == IF IsNull(item.depth) THEN DefaultDepth ELSE item.depth[1]
RoleOf(item) == IF IsNull(item.role) THEN SYSTEM ELSE item.role[1]

\* C3: after updateItemPrompt(item) the sink holds under paws_wi_<item.id> the
\* item's content, with the item's depth and role, when item.enabled is true and
\* shouldActivateItem(item) returned true for this evaluation; in every other
\* case (item not enabled, or enabled but not activated) it holds the empty
\* string. shouldActivateItem is called exactly when the item is enabled.
Thm_C3_UpdateItemPrompt ==
    (handler \in UpdatingHandlers) =>
        \A w \in 1..Len(writes) :
            LET id == writes[w].key[2]
                i == FindIndex(selectedItems, id)
                item == selectedItems[i]
                activated == \E j \in EvalsFor(id) : evals[j].out.result
            IN  /\ i > 0
                /\ writes[w].key = PromptKey(item.id)
                /\ prompts[writes[w].key] = writes[w]
                /\ (EvalsFor(id) # {}) = item.enabled
                /\ IF item.enabled /\ activated
                   THEN /\ writes[w].value = item.content
                        /\ writes[w].depth = DepthOf(item)
                        /\ writes[w].role = RoleOf(item)
                        /\ writes[w].position = IN_CHAT
                   ELSE writes[w].value = ""

\* toggled to enabled, the keyword matched and the content went to the sink
Wit_C3_UpdateItemPrompt ==
    /\ handler = "toggleItem" /\ Len(writes) = 1 /\ Len(evals) = 1
    /\ evals[1].out.stage = "keywords" /\ evals[1].out.result
    /\ prompts[writes[1].key].value = "lore2"
    /\ prompts[writes[1].key].depth = 2

\* C4: every GENERATION_STARTED event fired after init() re-runs activation for
\* all configured entries: each item in selectedItems has had exactly one sink
\* write under its own key, reflecting the activation decision computed during
\* that event over the current chat; init() registers the callback once.
Thm_C4_GenerationStarted ==
    /\ (handler \notin {"constructor", "chatChanged"}) => listeners = 1
    /\ (handler = "GENERATION_STARTED") =>
        /\ Len(writes) = Len(selectedItems)
        /\ \A i \in 1..Len(selectedItems) :
               LET item == selectedItems[i]
                   key == PromptKey(item.id)
                   ws == {w \in 1..Len(writes) : writes[w].key = key}
                   es == EvalsFor(item.id)
               IN  /\ Cardinality(ws) = 1
                   /\ Cardinality(es) = (IF item.enabled THEN 1 ELSE 0)
                   /\ \A j \in es :
                          evals[j].out = shouldActivateItem(item, chat, evals[j].k)
                   /\ \A w \in ws :
                          /\ prompts[key] = writes[w]
                          /\ (writes[w].value = item.content)
                                 = (item.enabled /\ \E j \in es : evals[j].out.result)
                          /\ writes[w].value \in {item.content, ""}

\* one event over a disabled entry, an activated entry and no other write
Wit_C4_GenerationStarted ==
    /\ handler = "GENERATION_STARTED" /\ Len(selectedItems) >= 2
    /\ \E i, j \in 1..Len(selectedItems) :
           /\ ~selectedItems[i].enabled
           /\ prompts[PromptKey(selectedItems[i].id)].value = ""
           /\ selectedItems[j].enabled
           /\ prompts[PromptKey(selectedItems[j].id)].value = selectedItems[j].content

InjectingHandlers == {"init", "GENERATION_STARTED", "addSingleEntry"}

\* the last handler ran injectAllItems over the present list (addSingleEntry
\* returns before it when the entry is already in the list)
InjectedAll == handler \in InjectingHandlers /\ Len(writes) = Len(selectedItems)

\* no entry of the list makes a draw when it is evaluated: each is switched off,
\* constant, disabled or has probability 100
NoDraws(items) == \A i \in 1..Len(items) : ~CallsRandom(items[i])

\* C19: re-evaluation is idempotent: when injectAllItems has run, chat and
\* entries are unchanged and no entry's outcome is subject to a draw, then
\* running injectAllItems again (a GENERATION_STARTED event) leaves the prompt
\* sink exactly as it is, and repeats the sink calls of the run before.
Thm_C19_Idempotent ==
    [][(/\ InjectedAll
        /\ handler' = "GENERATION_STARTED"
        /\ NoDraws(selectedItems))
           => /\ prompts' = prompts
              /\ writes' = writes
              /\ selectedItems' = selectedItems
      ]_vars

\* injectAllItems has run over two entries that make no draw, one switched off
\* and one whose keyword test put its content into the sink
Wit_C19_Idempotent ==
    /\ handler = "GENERATION_STARTED" /\ InjectedAll /\ NoDraws(selectedItems)
    /\ Len(selectedItems) = 2
    /\ \E j \in 1..Len(evals) :
           /\ evals[j].out.stage = "keywords" /\ evals[j].out.result
           /\ prompts[PromptKey(evals[j].id)].value = "lore3"
    /\ \E i \in 1..Len(selectedItems) :
           /\ ~selectedItems[i].enabled
           /\ prompts[PromptKey(selectedItems[i].id)].value = ""
    /\ ApplyWrites(prompts, WritesOf(injectAllItems(selectedItems, chat,
                                                    [i \in 1..Len(selectedItems) |-> 0])))
           = prompts

-----------------------------------------------------------------------------
(* SpecDefaults: shouldActivateItem applied to entries that carry no        *)
(* probability or no scan depth.                                            *)

\* host entries whose extensions hold neither a probability nor a scan depth
PlainHostEntries ==
    {[comment |-> "", content |-> "lore", key |-> key, keysecondary |-> <<>>,
      constant |-> FALSE, disable |-> FALSE,
      extensions |-> [NoExtensions EXCEPT !.case_sensitive = cs,
                                          !.match_whole_words = ww]] :
         key \in ActKeys, cs \in BOOLEAN, ww \in BOOLEAN}

\* the entries addSingleEntry makes of them
AddedItems == {NewItem(World, 1, e, 1) : e \in PlainHostEntries}

\* entries read from a file or from saved settings that lack the probability
\* field, the scan_depth field, or both, or hold null for the scan depth
BareItems ==
    [constant : BOOLEAN, disable : BOOLEAN, key : ActKeys,
     keysecondary : ActSecondaryKeys, case_sensitive : BOOLEAN,
     match_whole_words : BOOLEAN, name : {"entry"}]
    \cup
    [constant : BOOLEAN, disable : BOOLEAN, key : ActKeys,
     keysecondary : ActSecondaryKeys, case_sensitive : BOOLEAN,
     match_whole_words : BOOLEAN, scan_depth : {None, Some(1)}, name : {"entry"}]
    \cup
    [constant : BOOLEAN, disable : BOOLEAN, probability : Probs, key : ActKeys,
     keysecondary : ActSecondaryKeys, case_sensitive : BOOLEAN,
     match_whole_words : BOOLEAN, name : {"entry"}]

InitDefaults ==
    /\ Idle
    /\ chat \in Chats
    /\ call \in [fn : {"shouldActivateItem"}, st : {"pending"},
                 item : AddedItems \cup BareItems, k : {0}, out : {NotReturned}]
    /\ ElsewhereIdle

NextDefaults == ShouldActivateCall

SpecDefaults == InitDefaults /\ [][NextDefaults]_vars

\* the entry has a probability / a scan depth of its own
HasProbability(item) == "probability" \in DOMAIN item
HasScanDepth(item) == ~IsNull(ScanDepthField(item)) /\ ScanDepthField(item)[1] # 0

\* the entry with the probability p
WithProbability(item, p) == [probability |-> p] @@ item

\* C17: missing numeric fields default to safe values. An entry without a
\* probability is never blocked by the gate and no draw is made for it: for
\* every draw its evaluation is that of the same entry with probability 100. An
\* entry added from a host entry without a probability and a scan depth gets
\* probability 100 and no scan depth. An entry without a scan depth that
\* reaches the keyword stage activates exactly when a keyword occurs in the
\* last 10 messages.
Thm_C17_Defaults ==
    ActDone =>
        /\ call.out.stage # "throw"
        /\ ~HasProbability(call.item) =>
               /\ ~call.out.rolled
               /\ call.out.stage # "probability"
               /\ \A k \in Draws :
                      shouldActivateItem(call.item, chat, k)
                          = shouldActivateItem(WithProbability(call.item, 100), chat, k)
        /\ call.item \in AddedItems =>
               /\ call.item.probability = 100
               /\ call.item.scan_depth = None
               /\ ~call.out.rolled
               /\ call.out.stage \in {"nokeys", "keywords"}
        /\ (~HasScanDepth(call.item) /\ call.out.stage = "keywords") =>
               call.out.result = KeywordOccurs(call.item, Corpus(LastMessages(chat, 10)))

\* an entry without probability and scan depth over eleven messages: its keyword
\* is only in the message 11-from-end, and it does not activate
Wit_C17_Defaults ==
    /\ ActDone /\ ~HasProbability(call.item) /\ "scan_depth" \notin DOMAIN call.item
    /\ call.out.stage = "keywords" /\ call.item.key = <<<<"a">>>>
    /\ chat = OnlyAt(11, 1)
    /\ shouldActivateItem(call.item, <<chat[1]>>, 0).result
    /\ ~call.out.result

\* an added entry over eleven messages: its keyword is in the message 10-from-end
\* and it activates whatever the draw
Wit_C17_Added ==
    /\ ActDone /\ call.item \in AddedItems
    /\ chat = OnlyAt(11, 2) /\ call.out.result

-----------------------------------------------------------------------------
(* SpecTriggers: successive GENERATION_STARTED events over a changing chat  *)

\* the lists init() loads: a keyword entry that draws and scans one message,
\* next to a keyword entry that makes no draw, or behind a pinned entry
TriggerLists ==
    {<<NewItem(World, 2, HostEntries[2], 1), NewItem(World, 3, FormerEntry, 1)>>,
     <<NewItem(World, 1, HostEntries[1], 1), NewItem(World, 2, HostEntries[2], 1)>>}

InitTriggers ==
    /\ selectedItems = <<>>
    /\ prompts = NoPrompts
    /\ chat \in HostChats
    /\ writes = <<>>
    /\ evals = <<>>
    /\ warnCalls = 0
    /\ consoleLines = 0
    /\ handler = "constructor"
    /\ settings \in TriggerLists
    /\ listeners = 0
    /\ lastTrigger = None
    /\ call = NoCall
    /\ ElsewhereIdle

\* the handler that ran injectAllItems last, the chat it read and the sink it left
LastRun ==
    IF handler = "chatChanged" THEN lastTrigger
    ELSE Some([handler |-> handler, chat |-> chat, prompts |-> prompts])

\* GENERATION_STARTED, keeping what the run before it left
GenerationTrigger == OnGenerationStarted /\ lastTrigger' = LastRun

\* the chat changes between two runs
ChatChangedSince == HostChangesChat /\ lastTrigger' = LastRun

NextTriggers == InitHandler \/ GenerationTrigger \/ ChatChangedSince

SpecTriggers == InitTriggers /\ [][NextTriggers]_vars

\* item is switched on and decided by its keywords
KeywordEntry(item) == item.enabled /\ ~item.constant /\ ~item.disable

\* a keyword of item occurs in the last scan_depth messages of msgs
InScanWindow(item, msgs) ==
    KeywordOccurs(item, Corpus(LastMessages(msgs, ScanDepthOf(item))))

\* the value the sink holds for item, "" when it was never written
SinkValue(sink, item) ==
    IF PromptKey(item.id) \in DOMAIN sink THEN sink[PromptKey(item.id)].value ELSE ""

\* the sink values the evaluation of item over msgs can give, one for each draw
Outcomes(item, msgs) ==
    {updateItemPrompt(item, msgs, k).write.value :
         k \in IF CallsRandom(item) THEN Draws ELSE {0}}

\* C20: every GENERATION_STARTED evaluates afresh over the chat of that moment:
\* whatever the sink held and whatever chat the run before read, afterwards the
\* sink value of an enabled keyword entry is empty when none of its keywords is
\* in its scan window (the keywords left: cleared) and is its content when one
\* is and the probability check let it pass (the keywords entered: set); an
\* entry with a probability below 100 makes a draw of its own in each
\* evaluation, the draw of this run decides alone, and over the same chat both
\* outcomes are possible whatever the run before gave.
Thm_C20_Fresh ==
    (handler = "GENERATION_STARTED") =>
        \A i \in 1..Len(selectedItems) :
            LET item == selectedItems[i]
                now == SinkValue(prompts, item)
                blocked == \E j \in EvalsFor(item.id) :
                               RollExceeds(evals[j].k, item.probability)
            IN  KeywordEntry(item) =>
                    /\ ~InScanWindow(item, chat) => now = ""
                    /\ (InScanWindow(item, chat) /\ ~GateApplies(item)) =>
                           now = item.content
                    /\ (InScanWindow(item, chat) /\ GateApplies(item)) =>
                           /\ Cardinality(EvalsFor(item.id)) = 1
                           /\ now = (IF blocked THEN "" ELSE item.content)
                           /\ (0 < item.probability) =>
                                  Outcomes(item, chat) = {"", item.content}

\* the sink after the last two GENERATION_STARTED events, with only chat changes
\* between them
TwoTriggers ==
    /\ handler = "GENERATION_STARTED"
    /\ lastTrigger # None
    /\ lastTrigger[1].handler = "GENERATION_STARTED"

\* between two triggers a message arrived that pushed the keyword of an entry
\* out of its scan window (it is still in the chat): the first trigger had set
\* the entry's sink value, the second cleared it
Wit_C20_Fresh ==
    /\ TwoTriggers
    /\ \E i \in 1..Len(selectedItems) :
           LET item == selectedItems[i]
           IN  /\ KeywordEntry(item)
               /\ InScanWindow(item, lastTrigger[1].chat)
               /\ SinkValue(lastTrigger[1].prompts, item) = item.content
               /\ ~InScanWindow(item, chat)
               /\ KeywordOccurs(item, Corpus(chat))
               /\ SinkValue(prompts, item) = ""

\* between two triggers the chat changed so that a keyword entered the scan
\* window of an entry: the second trigger set the sink value the first had left empty
Wit_C20_Entered ==
    /\ TwoTriggers
    /\ \E i \in 1..Len(selectedItems) :
           LET item == selectedItems[i]
           IN  /\ KeywordEntry(item)
               /\ ~InScanWindow(item, lastTrigger[1].chat)
               /\ SinkValue(lastTrigger[1].prompts, item) = ""
               /\ InScanWindow(item, chat)
               /\ SinkValue(prompts, item) = item.content

\* two triggers over the same chat gave an entry with a probability below 100
\* two different outcomes
Wit_C20_Redrawn ==
    /\ TwoTriggers
    /\ lastTrigger[1].chat = chat
    /\ \E i \in 1..Len(selectedItems) :
           LET item == selectedItems[i]
           IN  /\ KeywordEntry(item) /\ GateApplies(item)
               /\ InScanWindow(item, chat)
               /\ SinkValue(lastTrigger[1].prompts, item) = item.content
               /\ SinkValue(prompts, item) = ""

-----------------------------------------------------------------------------
(* Spec: toggleItem                                                         *)

\* the entries whose enabled flag the step flips
Flipped ==
    {i \in 1..Len(selectedItems) :
         i <= Len(selectedItems') /\ selectedItems'[i].enabled # selectedItems[i].enabled}

\* the step changes nothing of the sink but, at most, the value under key
SinkSameBut(keys) ==
    /\ DOMAIN prompts \subseteq DOMAIN prompts'
    /\ \A key \in DOMAIN prompts' \ keys :
           key \in DOMAIN prompts /\ prompts'[key] = prompts[key]

Wit_C22_ToggleEmpty ==
    /\ handler = "toggleItem" /\ Len(writes) = 1
    /\ \E i \in 1..Len(selectedItems) :
           /\ writes[1].key = PromptKey(selectedItems[i].id)
           /\ selectedItems[i].enabled
           /\ prompts[writes[1].key].value = ""

\* toggleItem switched an entry off and cleared its sink value
Wit_C22_ToggleOff ==
    /\ handler = "toggleItem" /\ Len(writes) = 1
    /\ \E i \in 1..Len(selectedItems) :
           /\ writes[1].key = PromptKey(selectedItems[i].id)
           /\ ~selectedItems[i].enabled
           /\ prompts[writes[1].key].value = ""

-----------------------------------------------------------------------------
(* SpecItems: the list of entries under every handler that changes it       *)

\* keyInput.split(',').map(k => k.trim()).filter(k => k), for keywords typed
\* without blanks around them: the empty ones are dropped
FilterKeys(keys) == SelectSeq(keys, LAMBDA k : k # <<>>)

\* the entry after the user confirmed the edit popup with the values of form;
\* a number field holds what parseInt read, None standing for NaN
editedItem(item, form) ==
    [item EXCEPT !.content = form.content,
                 !.constant = form.constant,
                 !.key = FilterKeys(form.key),
                 !.keysecondary = FilterKeys(form.keysecondary),
                 !.case_sensitive = form.case_sensitive,
                 !.scan_depth = Some(OrDefault(form.scan_depth, DefaultScanDepth)),
                 !.probability = OrDefault(form.probability, 100),
                 !.depth = Some(OrDefault(form.depth, DefaultDepth))]

\* what the user leaves in the edit popup: a keyword entry with new content and
\* an empty keyword among its keywords
EditForms ==
    {[content |-> "lore9", constant |-> FALSE, key |-> <<<<>>, <<"a">>>>,
      keysecondary |-> <<>>, case_sensitive |-> TRUE, scan_depth |-> Some(1),
      probability |-> Some(50), depth |-> Some(0)]}

\* editItem(itemId); result is what callGenericPopup resolved to. The popup is
\* modal: no other handler of the list runs while it is open.
EditItem(id, result, form) ==
    LET i == FindIndex(selectedItems, id)
        items == [selectedItems EXCEPT ![i] = editedItem(selectedItems[i], form)]
    IN  /\ listeners = 1
        /\ IF i = 0
           THEN /\ Ran("editItem", <<>>, <<>>, 1)
                /\ UNCHANGED <<selectedItems, settings>>
           ELSE IF ~result
           THEN /\ Ran("editItem", <<>>, <<>>, 0)
                /\ UNCHANGED <<selectedItems, settings>>
           ELSE \E ks \in DrawVectors(<<items[i]>>) :
                    LET updates == <<updateItemPrompt(items[i], chat, ks[1])>>
                    IN  /\ selectedItems' = ItemsAfter(items, updates)
                        /\ settings' = ItemsAfter(items, updates)
                        /\ Ran("editItem", updates, <<>>, 0)
        /\ UNCHANGED <<chat, listeners, lastTrigger, call, elsewhere>>

\* the setExtensionPrompt calls of clearAllItems: one clearing call per entry
ClearWrites(items) == [i \in 1..Len(items) |-> ClearPrompt(PromptKey(items[i].id))]

\* clearAllItems(); confirmed is the answer to confirm(...)
ClearAllItems(confirmed) ==
    /\ listeners = 1
    /\ IF Len(selectedItems) = 0 \/ ~confirmed
       THEN /\ Ran("clearAllItems", <<>>, <<>>, 0)
            /\ UNCHANGED <<selectedItems, settings>>
       ELSE /\ selectedItems' = <<>>
            /\ settings' = <<>>
            /\ Ran("clearAllItems", <<>>, ClearWrites(selectedItems), 0)
    /\ UNCHANGED <<chat, listeners, lastTrigger, call, elsewhere>>

\* the files the user may pick: one without a worldInfoItems array, an export of
\* an empty list, an export made elsewhere of one entry
ImportFiles ==
    {[valid |-> FALSE, worldInfoItems |-> <<>>],
     [valid |-> TRUE, worldInfoItems |-> <<>>],
     [valid |-> TRUE, worldInfoItems |-> <<NewItem(World, 3, FormerEntry, 1)>>]}

\* importItems(), the onchange callback of the file input, for the parsed file data
ImportItems(data) ==
    /\ listeners = 1
    /\ IF data.valid
       THEN /\ selectedItems' = data.worldInfoItems
            /\ settings' = data.worldInfoItems
       ELSE UNCHANGED <<selectedItems, settings>>
    /\ Ran("importItems", <<>>, <<>>, 0)
    /\ UNCHANGED <<chat, listeners, lastTrigger, call, elsewhere>>

NextItems ==
    \/ InitHandler
    \/ GenerationStarted
    \/ \E uid \in Uids : \E now \in 1..MaxTime : AddSingleEntry(World, uid, now)
    \/ \E id \in ItemIds : ToggleItem(id)
    \/ \E id \in ItemIds : DeleteItem(id)
    \/ \E id \in ItemIds : \E result \in BOOLEAN : \E form \in EditForms :
           EditItem(id, result, form)
    \/ \E confirmed \in BOOLEAN : ClearAllItems(confirmed)
    \/ \E data \in ImportFiles : ImportItems(data)

\* the chat stays as it is while the list is worked on: no message, or the keyword
ItemChats == {<<>>, <<[mes |-> <<"a">>]>>}

InitItems ==
    /\ selectedItems = <<>>
    /\ prompts = NoPrompts
    /\ chat \in ItemChats
    /\ writes = <<>>
    /\ evals = <<>>
    /\ warnCalls = 0
    /\ consoleLines = 0
    /\ handler = "constructor"
    /\ settings \in {<<>>, <<NewItem(World, 1, HostEntries[1], 1)>>}
    /\ listeners = 0
    /\ lastTrigger = None
    /\ call = NoCall
    /\ ElsewhereIdle

SpecItems == InitItems /\ [][NextItems]_vars

\* the entry, if any, that owns the sink key
OwnersOf(key) == {i \in 1..Len(selectedItems) : PromptKey(selectedItems[i].id) = key}

\* C21 as the specification states it: every non-empty value the sink holds
\* belongs to an entry that is in selectedItems and is switched on. importItems
\* replaces the list without clearing the values of the entries it drops.
Cex_C21_SinkOwned ==
    \A key \in DOMAIN prompts :
        (prompts[key].value # "") =>
            \E i \in OwnersOf(key) : selectedItems[i].enabled

-----------------------------------------------------------------------------
(* SpecSnapshots: preset snapshots (preset-snapshot-data.js)                *)

MaxSnapshots == 1       \* generateUUID is called at most MaxSnapshots times

PresetNames == {"default", "other"}

\* the prompt orders the host may hold: none, one entry, two entries
Entry(identifier, enabled) == [identifier |-> identifier, enabled |-> enabled]
PromptOrders ==
    {<<>>,
     <<Entry("main", TRUE)>>,
     <<Entry("main", FALSE), Entry("nsfw", TRUE)>>}

\* a snapshot an earlier version left in the settings without its createdAt
DamagedSnapshot ==
    [id |-> 0, name |-> "old", createdAt |-> None, states |-> <<Entry("main", FALSE)>>]

\* what the settings file may hold when the extension starts: nothing, or the
\* old snapshot, which may be the one applied last
StoredPresets ==
    {[name \in {} |-> None]} \cup
    {[name \in {"default"} |-> [snapshots |-> <<DamagedSnapshot>>, lastApplied |-> last]] :
         last \in {None, Some(DamagedSnapshot.id)}}

\* isValidSnapshot(snapshot), for snapshots whose id, name and states are well formed
isValidSnapshot(snapshot) == ~IsNull(snapshot.createdAt)

\* storage.presets after getPresetData(presetName)
getPresetData(presetName) ==
    IF presetName \in DOMAIN presets THEN presets
    ELSE (presetName :> [snapshots |-> <<>>, lastApplied |-> None]) @@ presets

\* snapshots.findIndex(s => s.id === id), counted from 1; 0 when there is none
FindSnapshot(snapshots, id) ==
    IF \E i \in 1..Len(snapshots) : snapshots[i].id = id
    THEN CHOOSE i \in 1..Len(snapshots) :
             snapshots[i].id = id /\ \A j \in 1..(i - 1) : snapshots[j].id # id
    ELSE 0

\* new Map(states.map(s => [s.identifier, s.enabled])).get(identifier): the last
\* state of that identifier decides
MapHas(states, identifier) == \E i \in 1..Len(states) : states[i].identifier = identifier
MapGet(states, identifier) ==
    states[CHOOSE i \in 1..Len(states) :
               /\ states[i].identifier = identifier
               /\ \A j \in (i + 1)..Len(states) : states[j].identifier # identifier].enabled

\* the record of a call and of the value it returned
Returned(fn, arg, value) == [fn |-> fn, arg |-> arg, value |-> value]

\* the variables of the world-info tool, which the other modules do not touch
worldInfoVars == <<selectedItems, prompts, chat, writes, evals, warnCalls, consoleLines,
                   handler, settings, listeners, lastTrigger, call>>

\* what the snapshot module does not touch
snapshotFrame == <<worldInfoVars, fontVars, bookVars>>

\* loadSnapshots(presetName)
LoadSnapshots(presetName) ==
    LET stored == getPresetData(presetName)
        valid == SelectSeq(stored[presetName].snapshots, isValidSnapshot)
    IN  /\ presets' = [stored EXCEPT ![presetName].snapshots = valid]
        /\ snapshotCall' = Returned("loadSnapshots", "", valid)
        /\ UNCHANGED <<currentPreset, promptOrder, uuids, snapshotFrame>>

\* saveSnapshot(name)
SaveSnapshot(name) ==
    LET stored == getPresetData(currentPreset)
        states == [i \in 1..Len(promptOrder) |->
                      Entry(promptOrder[i].identifier, promptOrder[i].enabled)]
        snapshot == [id |-> uuids + 1,
                     name |-> IF name = "" THEN "dated" ELSE name,
                     createdAt |-> Some(1),
                     states |-> states]
    IN  /\ uuids < MaxSnapshots
        /\ uuids' = uuids + 1
        /\ presets' = [stored EXCEPT ![currentPreset].snapshots = Append(@, snapshot)]
        /\ snapshotCall' = Returned("saveSnapshot", "", snapshot.id)
        /\ UNCHANGED <<currentPreset, promptOrder, snapshotFrame>>

\* a slip: an entry the snapshot does not know is switched off
ApplySnapshot_AllEntries(id) ==
    LET stored == getPresetData(currentPreset)
        snapshots == stored[currentPreset].snapshots
        i == FindSnapshot(snapshots, id)
        states == snapshots[i].states
    IN  /\ IF i = 0 \/ Len(promptOrder) = 0
           THEN /\ presets' = stored
                /\ snapshotCall' = Returned("applySnapshot", id, FALSE)
                /\ UNCHANGED promptOrder
           ELSE /\ promptOrder' =
                      [e \in 1..Len(promptOrder) |->
                          [promptOrder[e] EXCEPT
                              !.enabled = /\ MapHas(states, promptOrder[e].identifier)
                                          /\ MapGet(states, promptOrder[e].identifier)]]
                /\ presets' = [stored EXCEPT ![currentPreset].lastApplied = Some(id)]
                /\ snapshotCall' = Returned("applySnapshot", id, TRUE)
        /\ UNCHANGED <<currentPreset, uuids, snapshotFrame>>

\* applySnapshot(id)
ApplySnapshot(id) ==
    LET stored == getPresetData(currentPreset)
        snapshots == stored[currentPreset].snapshots
        i == FindSnapshot(snapshots, id)
        states == snapshots[i].states
    IN  /\ IF i = 0 \/ Len(promptOrder) = 0
           THEN /\ presets' = stored
                /\ snapshotCall' = Returned("applySnapshot", id, FALSE)
                /\ UNCHANGED promptOrder
           ELSE /\ promptOrder' =
                      [e \in 1..Len(promptOrder) |->
                          IF MapHas(states, promptOrder[e].identifier)
                          THEN [promptOrder[e] EXCEPT
                                   !.enabled = MapGet(states, promptOrder[e].identifier)]
                          ELSE promptOrder[e]]
                /\ presets' = [stored EXCEPT ![currentPreset].lastApplied = Some(id)]
                /\ snapshotCall' = Returned("applySnapshot", id, TRUE)
        /\ UNCHANGED <<currentPreset, uuids, snapshotFrame>>

\* renameSnapshot(id, newName)
RenameSnapshot(id, newName) ==
    LET stored == getPresetData(currentPreset)
        i == FindSnapshot(stored[currentPreset].snapshots, id)
    IN  /\ IF i = 0
           THEN /\ presets' = stored
                /\ snapshotCall' = Returned("renameSnapshot", id, FALSE)
           ELSE /\ presets' =
                      [stored EXCEPT ![currentPreset].snapshots[i].name =
                                         IF newName = "" THEN @ ELSE newName]
                /\ snapshotCall' = Returned("renameSnapshot", id, TRUE)
        /\ UNCHANGED <<currentPreset, promptOrder, uuids, snapshotFrame>>

\* arr after arr.splice(i, 1), i counted from 1
Splice(arr, i) == SubSeq(arr, 1, i - 1) \o SubSeq(arr, i + 1, Len(arr))

\* a slip: the id is looked up in the lists of all presets
DeleteSnapshot_AnyPreset(id) ==
    LET stored == getPresetData(currentPreset)
        holders == {name \in DOMAIN stored : FindSnapshot(stored[name].snapshots, id) # 0}
    IN  /\ IF holders = {}
           THEN /\ presets' = stored
                /\ snapshotCall' = Returned("deleteSnapshot", id, FALSE)
           ELSE /\ presets' =
                      [name \in DOMAIN stored |->
                          IF name \in holders
                          THEN [snapshots |->
                                    Splice(stored[name].snapshots,
                                           FindSnapshot(stored[name].snapshots, id)),
                                lastApplied |->
                                    IF stored[name].lastApplied = Some(id)
                                    THEN None ELSE stored[name].lastApplied]
                          ELSE stored[name]]
                /\ snapshotCall' = Returned("deleteSnapshot", id, TRUE)
        /\ UNCHANGED <<currentPreset, promptOrder, uuids, snapshotFrame>>

\* deleteSnapshot(id)
DeleteSnapshot(id) ==
    LET stored == getPresetData(currentPreset)
        i == FindSnapshot(stored[currentPreset].snapshots, id)
    IN  /\ IF i = 0
           THEN /\ presets' = stored
                /\ snapshotCall' = Returned("deleteSnapshot", id, FALSE)
           ELSE /\ presets' =
                      [stored EXCEPT
                          ![currentPreset].snapshots = Splice(@, i),
                          ![currentPreset].lastApplied = IF @ = Some(id) THEN None ELSE @]
                /\ snapshotCall' = Returned("deleteSnapshot", id, TRUE)
        /\ UNCHANGED <<currentPreset, promptOrder, uuids, snapshotFrame>>

\* the user picks another preset in the host: its prompt order becomes the current one
SwitchPreset(name, order) ==
    /\ name # currentPreset
    /\ currentPreset' = name
    /\ promptOrder' = order
    /\ snapshotCall' = Returned("host", "", TRUE)
    /\ UNCHANGED <<presets, uuids, snapshotFrame>>

\* the user switches prompt entries on or off, adds or removes some, in the host
HostEditsPrompts(order) ==
    /\ order # promptOrder
    /\ promptOrder' = order
    /\ snapshotCall' = Returned("host", "", TRUE)
    /\ UNCHANGED <<presets, currentPreset, uuids, snapshotFrame>>

SnapshotIds == 0..MaxSnapshots
SnapshotNames == {"", "mine"}

InitSnapshots ==
    /\ Idle
    /\ chat = <<>>
    /\ call = NoCall
    /\ presets \in StoredPresets
    /\ currentPreset = "default"
    /\ promptOrder \in PromptOrders
    /\ uuids = 0
    /\ snapshotCall = [fn |-> "none"]
    /\ FontsIdle
    /\ BooksIdle

NextSnapshots ==
    \/ \E name \in PresetNames : LoadSnapshots(name)
    \/ \E name \in SnapshotNames : SaveSnapshot(name)
    \/ \E id \in SnapshotIds : ApplySnapshot(id)
    \/ \E id \in SnapshotIds : \E name \in SnapshotNames : RenameSnapshot(id, name)
    \/ \E id \in SnapshotIds : DeleteSnapshot(id)
    \/ \E name \in PresetNames : \E order \in PromptOrders : SwitchPreset(name, order)
    \/ \E order \in PromptOrders : HostEditsPrompts(order)

SpecSnapshots == InitSnapshots /\ [][NextSnapshots]_vars

\* the snapshots and the last applied id stored for a preset, as the API shows
\* them: a preset without stored data has no snapshot and no last applied id
SnapshotsOf(name) == IF name \in DOMAIN presets THEN presets[name].snapshots ELSE <<>>
LastAppliedOf(name) == IF name \in DOMAIN presets THEN presets[name].lastApplied ELSE None

\* the ids of the snapshots stored for a preset
IdsOf(name) == {SnapshotsOf(name)[i].id : i \in 1..Len(SnapshotsOf(name))}

\* the snapshot of the current preset with the given id
CurrentSnapshot(id) == SnapshotsOf(currentPreset)[FindSnapshot(SnapshotsOf(currentPreset), id)]

\* the enabled flags a snapshot stores for an identifier
StoredFlags(snapshot, identifier) ==
    {snapshot.states[i].enabled :
         i \in {j \in 1..Len(snapshot.states) : snapshot.states[j].identifier = identifier}}

\* C23: applySnapshot(id) for a snapshot of the current preset, with a non-empty
\* prompt order, returns true, gives every prompt entry whose identifier is in
\* the snapshot the flag stored there, leaves every other entry, the order and
\* the stored snapshots as they are and records id as the preset's lastApplied;
\* saveSnapshot stores the identifier and the flag of every entry of the prompt
\* order at that moment, so that applying the snapshot later restores the flags
\* of the entries it was saved from.
Thm_C23_Apply ==
    [][/\ (/\ snapshotCall'.fn = "applySnapshot"
           /\ snapshotCall'.arg \in IdsOf(currentPreset)
           /\ Len(promptOrder) > 0) =>
              LET id == snapshotCall'.arg
                  snapshot == CurrentSnapshot(id)
              IN  /\ snapshotCall'.value = TRUE
                  /\ Len(promptOrder') = Len(promptOrder)
                  /\ \A e \in 1..Len(promptOrder) :
                         LET flags == StoredFlags(snapshot, promptOrder[e].identifier)
                         IN  /\ promptOrder'[e].identifier = promptOrder[e].identifier
                             /\ (flags = {}) => promptOrder'[e] = promptOrder[e]
                             /\ (flags # {}) => flags = {promptOrder'[e].enabled}
                  /\ presets'[currentPreset].lastApplied = Some(id)
                  /\ presets'[currentPreset].snapshots = SnapshotsOf(currentPreset)
                  /\ \A name \in DOMAIN presets \ {currentPreset} :
                         presets'[name] = presets[name]
                  /\ currentPreset' = currentPreset
       /\ (snapshotCall'.fn = "saveSnapshot") =>
              LET saved == presets'[currentPreset].snapshots
                  snapshot == saved[Len(saved)]
              IN  /\ saved = Append(SnapshotsOf(currentPreset), snapshot)
                  /\ snapshot.id = snapshotCall'.value
                  /\ snapshot.id \notin UNION {IdsOf(name) : name \in PresetNames}
                  /\ snapshot.states =
                         [e \in 1..Len(promptOrder) |->
                             Entry(promptOrder[e].identifier, promptOrder[e].enabled)]
                  /\ promptOrder' = promptOrder
      ]_vars

\* a snapshot saved in this session from a prompt order of one entry was applied
\* to a prompt order of two entries: the entry it knows has the stored flag
\* again, the other entry has kept its flag
Wit_C23_Apply ==
    /\ snapshotCall.fn = "applySnapshot" /\ snapshotCall.value = TRUE
    /\ snapshotCall.arg > 0
    /\ LastAppliedOf(currentPreset) = Some(snapshotCall.arg)
    /\ CurrentSnapshot(snapshotCall.arg).states = <<Entry("main", TRUE)>>
    /\ promptOrder = <<Entry("main", TRUE), Entry("nsfw", TRUE)>>

\* the calls that look a snapshot up by its id
ByIdCalls == {"applySnapshot", "renameSnapshot", "deleteSnapshot"}

\* the step leaves the snapshots and the last applied id of these presets as they are
PresetsKept(names) ==
    \A name \in names :
        /\ SnapshotsOf(name)' = SnapshotsOf(name)
        /\ LastAppliedOf(name)' = LastAppliedOf(name)

\* C24: snapshots are isolated per preset: saveSnapshot adds one snapshot to the
\* list of the current preset and changes nothing of any other preset;
\* applySnapshot, renameSnapshot and deleteSnapshot called with an id that is
\* not in the current preset's list (an unknown one, or one of another preset)
\* return false and leave the snapshots and the last applied id of every preset
\* and the prompt order unchanged; called with an id of the current preset they
\* leave every other preset unchanged.
Thm_C24_Isolated ==
    [][/\ (snapshotCall'.fn = "saveSnapshot") =>
              /\ PresetsKept(PresetNames \ {currentPreset})
              /\ Len(SnapshotsOf(currentPreset)') = Len(SnapshotsOf(currentPreset)) + 1
              /\ LastAppliedOf(currentPreset)' = LastAppliedOf(currentPreset)
       /\ (snapshotCall'.fn \in ByIdCalls) =>
              /\ currentPreset' = currentPreset
              /\ PresetsKept(PresetNames \ {currentPreset})
              /\ (snapshotCall'.arg \notin IdsOf(currentPreset)) =>
                     /\ snapshotCall'.value = FALSE
                     /\ PresetsKept(PresetNames)
                     /\ promptOrder' = promptOrder
      ]_vars

\* applySnapshot was called with the id of a snapshot of another preset, over a
\* prompt order that is not empty, and returned false
Wit_C24_Isolated ==
    /\ snapshotCall.fn = "applySnapshot" /\ snapshotCall.value = FALSE
    /\ snapshotCall.arg \notin IdsOf(currentPreset)
    /\ \E name \in PresetNames \ {currentPreset} : snapshotCall.arg \in IdsOf(name)
    /\ Len(promptOrder) > 0

\* deleteSnapshot was called with the id of a snapshot of another preset and
\* returned false; the snapshot is still there
Wit_C24_DeleteElsewhere ==
    /\ snapshotCall.fn = "deleteSnapshot" /\ snapshotCall.value = FALSE
    /\ \E name \in PresetNames \ {currentPreset} :
           snapshotCall.arg \in IdsOf(name) /\ LastAppliedOf(name) = Some(snapshotCall.arg)

\* C25 as stated: for every preset, lastApplied is null or the id of a snapshot
\* in that preset's list. loadSnapshots drops a damaged snapshot from the list
\* and leaves lastApplied as it is.
Cex_C25_LastApplied ==
    \A name \in PresetNames :
        LastAppliedOf(name) = None \/ LastAppliedOf(name)[1] \in IdsOf(name)


(***************************************************************************)
(* SpecFonts: the font manager                                             *)
(***************************************************************************)

\* the names and the font-family values of the fonts tried
FontNames == {"kai", "song"}
FontFamilies == {"KaiTi", "SimSun"}

\* a font object, as parseFont builds it and as an export file carries it
Font(name, family) == [name |-> name, fontFamily |-> family]
Fonts == {Font(name, family) : name \in FontNames, family \in FontFamilies}

\* Map.prototype.set on this.fonts
FontsSet(map, key, value) ==
    [k \in DOMAIN map \cup {key} |-> IF k = key THEN value ELSE map[k]]

\* Map.prototype.has on this.fonts
FontsHas(map, key) == key \in DOMAIN map

\* Map.prototype.delete on this.fonts
FontsDelete(map, key) == [k \in DOMAIN map \ {key} |-> map[k]]

\* applyFont(font) in a manager whose switch is `enabled` and whose page holds `style`:
\* nothing while the switch is off, otherwise the old element is removed and a new one
\* with the font's font-family is appended
applyFont(enabled, style, font) ==
    IF ~enabled THEN style ELSE Some(font.fontFamily)

\* what the methods leave alone
fontFrame == <<worldInfoVars, snapshotVars, bookVars>>

\* setEnabled(enabled)
SetEnabled(enabled) ==
    /\ fontEnabled' = enabled
    /\ fontStyle' =
         IF ~enabled THEN None
         ELSE IF currentFont # None /\ FontsHas(fonts, currentFont[1])
              THEN applyFont(enabled, fontStyle, fonts[currentFont[1]])
              ELSE fontStyle
    /\ fontCall' = [fn |-> "setEnabled", value |-> "undefined"]
    /\ UNCHANGED <<fonts, currentFont, fontFrame>>

\* addFont(fontData) with a font object
AddFont(fontData) ==
    IF FontsHas(fonts, fontData.name)
    THEN /\ fontCall' = [fn |-> "addFont", value |-> "false"]
         /\ UNCHANGED <<fonts, currentFont, fontEnabled, fontStyle, fontFrame>>
    ELSE /\ fonts' = FontsSet(fonts, fontData.name, fontData)
         /\ fontCall' = [fn |-> "addFont", value |-> "true"]
         /\ UNCHANGED <<currentFont, fontEnabled, fontStyle, fontFrame>>

\* { ...font, ...updates }: the fields the update carries replace those of the font
Spread(font, updates) ==
    [name       |-> IF updates.name # None THEN updates.name[1] ELSE font.name,
     fontFamily |-> IF updates.fontFamily # None THEN updates.fontFamily[1]
                    ELSE font.fontFamily]

\* the updates tried: a new name, a new font-family, both or neither
FontUpdates ==
    [name : {None} \cup {Some(n) : n \in FontNames},
     fontFamily : {None} \cup {Some(f) : f \in FontFamilies}]

\* updateFont(fontName, updates)
UpdateFont(fontName, updates) ==
    IF ~FontsHas(fonts, fontName)
    THEN /\ fontCall' = [fn |-> "updateFont", value |-> "false"]
         /\ UNCHANGED <<fonts, currentFont, fontEnabled, fontStyle, fontFrame>>
    ELSE /\ IF updates.name # None /\ updates.name[1] # fontName
            THEN /\ fonts' = FontsSet(FontsDelete(fonts, fontName), updates.name[1],
                                      Spread(fonts[fontName], updates))
                 /\ currentFont' = IF currentFont = Some(fontName)
                                   THEN updates.name ELSE currentFont
            ELSE /\ fonts' = FontsSet(fonts, fontName, Spread(fonts[fontName], updates))
                 /\ UNCHANGED currentFont
         /\ fontCall' = [fn |-> "updateFont", value |-> "true"]
         /\ UNCHANGED <<fontEnabled, fontStyle, fontFrame>>

\* removeFont(fontName)
RemoveFont(fontName) ==
    IF ~FontsHas(fonts, fontName)
    THEN /\ fontCall' = [fn |-> "removeFont", value |-> "false"]
         /\ UNCHANGED <<fonts, currentFont, fontEnabled, fontStyle, fontFrame>>
    ELSE /\ fonts' = FontsDelete(fonts, fontName)
         /\ IF currentFont = Some(fontName)
            THEN currentFont' = None /\ fontStyle' = None
            ELSE UNCHANGED <<currentFont, fontStyle>>
         /\ fontCall' = [fn |-> "removeFont", value |-> "true"]
         /\ UNCHANGED <<fontEnabled, fontFrame>>

\* setCurrentFont(fontName)
SetCurrentFont(fontName) ==
    IF ~FontsHas(fonts, fontName)
    THEN /\ fontCall' = [fn |-> "setCurrentFont", value |-> "false"]
         /\ UNCHANGED <<fonts, currentFont, fontEnabled, fontStyle, fontFrame>>
    ELSE /\ currentFont' = Some(fontName)
         /\ fontStyle' = IF fontEnabled
                         THEN applyFont(fontEnabled, fontStyle, fonts[fontName])
                         ELSE fontStyle
         /\ fontCall' = [fn |-> "setCurrentFont", value |-> "true"]
         /\ UNCHANGED <<fonts, fontEnabled, fontFrame>>

\* data.fonts.forEach of importFonts: a font already stored is skipped in merge mode
RECURSIVE ImportEach(_, _, _)
ImportEach(map, list, merge) ==
    IF list = <<>> THEN map
    ELSE ImportEach(IF merge /\ FontsHas(map, Head(list).name) THEN map
                    ELSE FontsSet(map, Head(list).name, Head(list)),
                    Tail(list), merge)

\* the parsed files tried: one without a fonts array, and files as exportFonts writes
\* them, with a list of fonts, the exporter's current font and its switch; a file
\* written by hand may leave currentFont and fontEnabled out
FontFiles ==
    {[valid |-> FALSE]} \cup
    [valid : {TRUE},
     fonts : {<<>>, <<Font("song", "SimSun")>>,
              <<Font("kai", "SimSun"), Font("song", "SimSun")>>},
     currentFont : {None, Some("song")},
     fontEnabled : {None, Some(TRUE), Some(FALSE)}]

\* importFonts(jsonData, merge)
ImportFonts(data, merge) ==
    IF ~data.valid
    THEN /\ fontCall' = [fn |-> "importFonts", value |-> "throws"]
         /\ UNCHANGED <<fonts, currentFont, fontEnabled, fontStyle, fontFrame>>
    ELSE /\ fonts' = ImportEach(IF merge THEN fonts ELSE [name \in {} |-> None],
                                data.fonts, merge)
         /\ currentFont' = IF data.currentFont # None /\ FontsHas(fonts', data.currentFont[1])
                           THEN data.currentFont ELSE currentFont
         /\ fontEnabled' = IF data.fontEnabled # None THEN data.fontEnabled[1]
                           ELSE fontEnabled
         /\ fontCall' = [fn |-> "importFonts", value |-> "count"]
         /\ UNCHANGED <<fontStyle, fontFrame>>

\* clearAllFonts()
ClearAllFonts ==
    /\ fonts' = [name \in {} |-> None]
    /\ currentFont' = None
    /\ fontStyle' = None
    /\ fontCall' = [fn |-> "clearAllFonts", value |-> "undefined"]
    /\ UNCHANGED <<fontEnabled, fontFrame>>

\* the manager after construction, with no saved fonts; the other modules idle
InitFonts ==
    /\ Idle
    /\ chat = <<>>
    /\ call = NoCall
    /\ SnapshotsIdle
    /\ FontsIdle
    /\ BooksIdle

NextFonts ==
    \/ \E enabled \in BOOLEAN : SetEnabled(enabled)
    \/ \E fontData \in Fonts : AddFont(fontData)
    \/ \E fontName \in FontNames, updates \in FontUpdates : UpdateFont(fontName, updates)
    \/ \E fontName \in FontNames : RemoveFont(fontName)
    \/ \E fontName \in FontNames : SetCurrentFont(fontName)
    \/ \E data \in FontFiles, merge \in BOOLEAN : ImportFonts(data, merge)
    \/ ClearAllFonts

SpecFonts == InitFonts /\ [][NextFonts]_vars


\* C26: over any sequence of setEnabled, setCurrentFont, addFont, updateFont,
\* removeFont, importFonts and clearAllFonts, no font style element is on the page
\* whenever fontEnabled is false.  importFonts assigns the file's fontEnabled without
\* clearing the element, so a file exported with the switch off turns the switch off
\* under an applied font.
Cex_C26_StyleWhileOff == ~fontEnabled => fontStyle = None

\* C27: over any sequence of addFont, updateFont, removeFont, setCurrentFont,
\* importFonts and clearAllFonts, currentFont is null or the name of a stored font.
\* importFonts in replace mode empties fonts and keeps the old currentFont when the
\* file names none (or one it does not carry).
Cex_C27_CurrentStored == currentFont = None \/ FontsHas(fonts, currentFont[1])

-----------------------------------------------------------------------------
(* SpecNumbers: the numeric settings of an entry, as supplied and as stored  *)

\* the probabilities (0..100) and depths (0..999) supplied: the ends of the allowed
\* ranges, the defaults and values in between
SuppliedProbabilities == {0, 1, 50, 100}
SuppliedDepths == {0, 1, 4, 999}

\* a host entry whose extensions carry the probability and the depth
SuppliedEntry(probability, depth) ==
    [HostEntries[2] EXCEPT !.extensions.probability = Some(probability),
                           !.extensions.depth = Some(depth)]

\* what the popup inputs paws-edit-probability and paws-edit-depth hold when the
\* user confirms; the other fields as the popup showed them
SuppliedForm(probability, depth) ==
    [content |-> "lore2", constant |-> FALSE, key |-> <<<<"a">>>>,
     keysecondary |-> <<>>, case_sensitive |-> FALSE, scan_depth |-> Some(1),
     probability |-> Some(probability), depth |-> Some(depth)]

InitNumbers ==
    /\ Idle
    /\ chat \in ItemChats
    /\ call = NoCall
    /\ ElsewhereIdle

NextNumbers ==
    \/ InitHandler
    \/ \E probability \in SuppliedProbabilities : \E depth \in SuppliedDepths :
           AddEntry(World, 2, SuppliedEntry(probability, depth), 1)
    \/ \E id \in ItemIds : \E result \in BOOLEAN :
       \E probability \in SuppliedProbabilities : \E depth \in SuppliedDepths :
           EditItem(id, result, SuppliedForm(probability, depth))
    \/ \E id \in ItemIds : DeleteItem(id)

SpecNumbers == InitNumbers /\ [][NextNumbers]_vars

\* the entry of world book World with uid 2 is in the list with these numbers
StoredAs(items, probability, depth) ==
    \E i \in 1..Len(items) :
        /\ items[i].worldName = World /\ items[i].uid = 2
        /\ items[i].probability = probability
        /\ items[i].depth = Some(depth)

\* C28: for every probability in 0..100 and every depth in 0..999, addSingleEntry
\* and a confirmed editItem leave the item with exactly that probability and depth.
\* Both read the numbers through `|| default`, which takes a supplied 0 for missing.
Cex_C28_AsSupplied ==
    [][\A probability \in SuppliedProbabilities : \A depth \in SuppliedDepths :
          /\ (/\ AddEntry(World, 2, SuppliedEntry(probability, depth), 1)
              /\ Len(selectedItems') = Len(selectedItems) + 1)
                 => StoredAs(selectedItems', probability, depth)
          /\ \A id \in ItemIds \ {UnknownId} :
                 EditItem(id, TRUE, SuppliedForm(probability, depth))
                     => StoredAs(selectedItems', probability, depth)]_vars

-----------------------------------------------------------------------------
(* SpecBooks: the world-book dropdown and the asynchronous loads of entries  *)

MaxPending == 2     \* at most MaxPending calls of loadWorldInfo are under way

\* what loadWorldInfo may settle with: a world book with entries, one without, or
\* a rejection; the world book "e" has no entries
LoadOutcomes(worldName) ==
    (IF worldName = "e" THEN {"none"} ELSE {"entries"}) \cup {"rejected"}

\* the number of loads under way
Pending == pendingLoads["w"] + pendingLoads["v"] + pendingLoads["e"]

\* what the picker leaves alone
bookFrame == <<worldInfoVars, snapshotVars, fontVars>>

\* displayAvailableEntries(entries, worldName): the list shows the entries of worldName
displayAvailableEntries(worldName) == [kind |-> "entries", world |-> worldName]

\* the user picks worldName in the dropdown ("" is the option "please select"): the
\* change listener runs loadWorldBookEntries(worldName) up to its await
SelectWorldBook(worldName) ==
    /\ wbSelected' = worldName
    /\ IF worldName = ""
       THEN /\ availableList' = [kind |-> "prompt", world |-> ""]
            /\ UNCHANGED <<worldInfoCache, pendingLoads>>
       ELSE IF worldName \in worldInfoCache
       THEN /\ availableList' = displayAvailableEntries(worldName)
            /\ UNCHANGED <<worldInfoCache, pendingLoads>>
       ELSE /\ Pending < MaxPending
            /\ availableList' = [kind |-> "loading", world |-> worldName]
            /\ pendingLoads' = [pendingLoads EXCEPT ![worldName] = @ + 1]
            /\ UNCHANGED worldInfoCache
    /\ UNCHANGED bookFrame

\* a call loadWorldInfo(worldName) settles and loadWorldBookEntries runs on from its
\* await to its end
LoadSettles(worldName, outcome) ==
    /\ pendingLoads[worldName] > 0
    /\ outcome \in LoadOutcomes(worldName)
    /\ pendingLoads' = [pendingLoads EXCEPT ![worldName] = @ - 1]
    /\ CASE outcome = "entries" ->
                /\ worldInfoCache' = worldInfoCache \cup {worldName}
                /\ availableList' = displayAvailableEntries(worldName)
         [] outcome = "none" ->
                /\ availableList' = [kind |-> "none", world |-> worldName]
                /\ UNCHANGED worldInfoCache
         [] outcome = "rejected" ->
                /\ availableList' = [kind |-> "failed", world |-> worldName]
                /\ UNCHANGED worldInfoCache
    /\ UNCHANGED <<wbSelected, bookFrame>>

InitBooks ==
    /\ Idle
    /\ chat = <<>>
    /\ call = NoCall
    /\ ElsewhereIdle

NextBooks ==
    \/ \E worldName \in WorldBooks \cup {""} : SelectWorldBook(worldName)
    \/ \E worldName \in WorldBooks : \E outcome \in {"entries", "none", "rejected"} :
           LoadSettles(worldName, outcome)

SpecBooks == InitBooks /\ [][NextBooks]_vars

\* C29: once all pending loads have completed, the list shown is the one of the
\* world book selected in the dropdown.  loadWorldBookEntries writes the list after
\* its await without looking at the dropdown, so the load that settles last wins.
Cex_C29_ListOfSelected == Pending = 0 => availableList.world = wbSelected
====
